---- MODULE Spec2Model ----
(***************************************************************************)
(* A model of the UML -> AArch64 dynamic recompiler back-end               *)
(* (src/devices/cpu/drcbearm64.cpp).                                       *)
(*                                                                         *)
(* The generator is modelled as it is written: every op_* operator takes   *)
(* the generator state (m_carry_state and the instructions emitted so far) *)
(* and a UML instruction and returns the generator state with the host     *)
(* instructions appended that the C++ emits, in the same order.  The host  *)
(* instructions are then run by Run, an interpreter of the small part of   *)
(* the A64 instruction set the back-end uses, on the host registers, the   *)
(* NZCV flags and memory.                                                  *)
(*                                                                         *)
(* Values are bit vectors: a value is the set of the positions of its one  *)
(* bits, so that 32 and 64 bit quantities keep their real width.           *)
(***************************************************************************)
EXTENDS Integers, Sequences, FiniteSets, TLC

(***************************************************************************)
(* Bit vectors                                                             *)
(***************************************************************************)
make_bitmask(bits) == 0 .. (bits - 1)

BV_ZERO == {}
BV_ONES64 == make_bitmask(64)

\* the value of a natural number below 2^31
FromNat(n) == { i \in 0 .. 30 : (n \div (2 ^ i)) % 2 = 1 }

\* the natural number of a value below 2^31
RECURSIVE ToNatFrom(_)
ToNatFrom(v) ==
    IF v = {} THEN 0
    ELSE LET i == CHOOSE j \in v : TRUE IN 2 ^ i + ToNatFrom(v \ {i})
ToNat(v) == ToNatFrom(v \cap (0 .. 30))

Bit(v, i) == IF i \in v THEN 1 ELSE 0
Trunc(v, bits) == v \cap make_bitmask(bits)
NotBV(v, bits) == make_bitmask(bits) \ v
AndBV(a, b) == a \cap b
OrBV(a, b) == a \cup b
XorBV(a, b) == (a \ b) \cup (b \ a)
BicBV(a, b) == a \ b
ShlBV(v, n, bits) == { i + n : i \in v } \cap make_bitmask(bits)
LsrBV(v, n) == { i - n : i \in { j \in v : j >= n } }
AsrBV(v, n, bits) ==
    LsrBV(v, n) \cup (IF (bits - 1) \in v THEN (bits - n) .. (bits - 1) ELSE {})
RorBV(v, n, bits) == { (i + bits - (n % bits)) % bits : i \in Trunc(v, bits) }
RolBV(v, n, bits) == { (i + n) % bits : i \in Trunc(v, bits) }

\* a + b + cin at the given width (a multiple of 16), with the carry out and
\* the signed overflow.  The sum is formed sixteen bits at a time.
Limb(v, o) ==
    IF v \cap (o .. (o + 15)) = {} THEN 0
    ELSE Bit(v, o) + 2 * Bit(v, o + 1) + 4 * Bit(v, o + 2) + 8 * Bit(v, o + 3)
         + 16 * Bit(v, o + 4) + 32 * Bit(v, o + 5) + 64 * Bit(v, o + 6)
         + 128 * Bit(v, o + 7) + 256 * Bit(v, o + 8) + 512 * Bit(v, o + 9)
         + 1024 * Bit(v, o + 10) + 2048 * Bit(v, o + 11) + 4096 * Bit(v, o + 12)
         + 8192 * Bit(v, o + 13) + 16384 * Bit(v, o + 14) + 32768 * Bit(v, o + 15)
FromLimb(n, o) ==
    IF n = 0 THEN {}
    ELSE { o + j : j \in { k \in 0 .. 15 : (n \div (2 ^ k)) % 2 = 1 } }

RECURSIVE AddLimbs(_, _, _, _, _, _)
AddLimb(a, b, o, bits, t, acc) ==
    AddLimbs(a, b, o + 16, bits, t \div 65536, acc \cup FromLimb(t % 65536, o))
AddLimbs(a, b, o, bits, c, acc) ==
    IF o >= bits THEN [sum |-> acc, c |-> c]
    ELSE AddLimb(a, b, o, bits, Limb(a, o) + Limb(b, o) + c, acc)

AddLoop(a, b, bits, cin) == AddLimbs(a, b, 0, bits, cin, {})

\* the sum r of x and y with the flags an adder derives from it
AddResult(x, y, r, bits) ==
    [sum |-> r.sum,
     n |-> Bit(r.sum, bits - 1),
     z |-> IF r.sum = {} THEN 1 ELSE 0,
     c |-> r.c,
     v |-> IF ((bits - 1) \in x) = ((bits - 1) \in y)
              /\ ((bits - 1) \in r.sum) # ((bits - 1) \in x) THEN 1 ELSE 0]
AddOperands(x, y, cin, bits) == AddResult(x, y, AddLoop(x, y, bits, cin), bits)
AddWithCarry(a, b, cin, bits) == AddOperands(Trunc(a, bits), Trunc(b, bits), cin, bits)

AddBV(a, b, bits) == AddWithCarry(a, b, 0, bits).sum
SubBV(a, b, bits) == AddWithCarry(a, NotBV(b, bits), 1, bits).sum
NegBV(a, bits) == SubBV({}, a, bits)

\* unsigned a < b
LessBV(a, b) ==
    LET d == XorBV(a, b)
    IN  d # {} /\ (CHOOSE i \in d : \A j \in d : j <= i) \in b

\* a * b for a and b of up to 64 bits, as a product of 128 bits: the
\* schoolbook product on bytes, one column of the result at a time
ByteOf(v, k) ==
    Bit(v, 8 * k) + 2 * Bit(v, 8 * k + 1) + 4 * Bit(v, 8 * k + 2) + 8 * Bit(v, 8 * k + 3)
    + 16 * Bit(v, 8 * k + 4) + 32 * Bit(v, 8 * k + 5) + 64 * Bit(v, 8 * k + 6)
    + 128 * Bit(v, 8 * k + 7)
RECURSIVE MulColumn(_, _, _, _)
MulColumn(a, b, k, i) ==
    IF i > k \/ i > 7 THEN 0
    ELSE (IF k - i > 7 THEN 0 ELSE ByteOf(a, i) * ByteOf(b, k - i))
         + MulColumn(a, b, k, i + 1)
RECURSIVE MulColumns(_, _, _, _, _)
MulColumnSum(a, b, k, t, acc) ==
    MulColumns(a, b, k + 1, t \div 256,
               acc \cup { 8 * k + j : j \in { n \in 0 .. 7 : (t \div (2 ^ n)) % 2 = 1 } })
MulColumns(a, b, k, c, acc) ==
    IF k > 15 THEN acc
    ELSE MulColumnSum(a, b, k, MulColumn(a, b, k, 0) + c, acc)
MulWide(a, b) ==
    IF a = {} \/ b = {} THEN {} ELSE MulColumns(Trunc(a, 64), Trunc(b, 64), 0, 0, {})
\* the signed product takes off what the sign bits stand for
MulWideSigned(a, b) ==
    LET p0 == MulWide(a, b)
        p1 == IF 63 \in a THEN SubBV(p0, ShlBV(Trunc(b, 64), 64, 128), 128) ELSE p0
    IN  IF 63 \in b THEN SubBV(p1, ShlBV(Trunc(a, 64), 64, 128), 128) ELSE p1

\* a * b at the given width
MulOperands(x, y, bits) ==
    IF x \subseteq (0 .. 14) /\ y \subseteq (0 .. 14)
    THEN FromNat(ToNat(x) * ToNat(y))
    ELSE Trunc(MulWide(x, y), bits)
MulBV(a, b, bits) == MulOperands(Trunc(a, bits), Trunc(b, bits), bits)

population_count_64(v) == Cardinality(v)
count_leading_zeros_64(v) ==
    IF v = {} THEN 64 ELSE 63 - (CHOOSE i \in v : \A j \in v : j <= i)

\* unsigned a / b (b # 0) at the given width: restoring division
RECURSIVE DivLoop(_, _, _, _, _)
DivStep(a, b, i, r1, quo) ==
    IF LessBV(r1, b)
    THEN DivLoop(a, b, i - 1, r1, quo)
    ELSE DivLoop(a, b, i - 1, SubBV(r1, b, 64), quo \cup {i})
DivLoop(a, b, i, rem, quo) ==
    IF i < 0 THEN quo
    ELSE DivStep(a, b, i,
                 { j + 1 : j \in rem } \cup (IF i \in a THEN {0} ELSE {}), quo)
UDivOperands(x, y) ==
    IF y = {} \/ x = {} THEN {}
    ELSE IF x \subseteq (0 .. 30) /\ y \subseteq (0 .. 30)
    THEN FromNat(ToNat(x) \div ToNat(y))
    ELSE DivLoop(x, y, 63 - count_leading_zeros_64(x), {}, {})
UDivBV(a, b, bits) == UDivOperands(Trunc(a, bits), Trunc(b, bits))
AbsBV(x, bits) == IF (bits - 1) \in x THEN NegBV(x, bits) ELSE x
SDivOperands(x, y, bits) ==
    IF y = {} THEN {}
    ELSE IF ((bits - 1) \in x) # ((bits - 1) \in y)
    THEN NegBV(UDivBV(AbsBV(x, bits), AbsBV(y, bits), bits), bits)
    ELSE Trunc(UDivBV(AbsBV(x, bits), AbsBV(y, bits), bits), bits)
SDivBV(a, b, bits) == SDivOperands(Trunc(a, bits), Trunc(b, bits), bits)


(***************************************************************************)
(* The host machine: registers, NZCV, memory                               *)
(***************************************************************************)
\* host register operands: n is the register number (31 is the zero
\* register), w its width in bytes
XReg(n) == [k |-> "r", n |-> n, w |-> 8]
WReg(n) == [k |-> "r", n |-> n, w |-> 4]
Imm(v) == [k |-> "i", v |-> v]
zr == 31

REG_PARAM1 == 0
REG_PARAM2 == 1
REG_PARAM3 == 2
REG_PARAM4 == 3
TEMP_REG1 == 9
TEMP_REG2 == 10
TEMP_REG3 == 11
SCRATCH_REG1 == 12
SCRATCH_REG2 == 13
MEM_SCRATCH_REG == 14
FUNC_SCRATCH_REG == 15
TEMPF_REG1 == 16
TEMPF_REG2 == 17
TEMPF_REG3 == 18
BASE_REG == 27
FLAGS_REG == 28

REG_I_COUNT == 8
REG_F_COUNT == 8
int_register_map(i) == 19 + i
float_register_map(i) == 8 + i

FLAG_BIT_C == 0
FLAG_BIT_V == 1
FLAG_BIT_Z == 2
FLAG_BIT_S == 3
FLAG_BIT_U == 4
FLAG_C == {FLAG_BIT_C}
FLAG_V == {FLAG_BIT_V}
FLAG_Z == {FLAG_BIT_Z}
FLAG_S == {FLAG_BIT_S}
FLAG_U == {FLAG_BIT_U}

\* the positions of N, Z, C and V in the NZCV system register
NZCV_N == 31
NZCV_Z == 30
NZCV_C == 29
NZCV_V == 28

select_register(reg, regsize) == [reg EXCEPT !.w = regsize]

RegRead(m, r) == IF r.n = zr THEN {} ELSE Trunc(m.x[r.n], 8 * r.w)
\* a write to a W register clears the upper half of the X register
RegWrite(m, r, v) ==
    IF r.n = zr THEN m ELSE [m EXCEPT !.x[r.n] = Trunc(v, 8 * r.w)]

\* the second operand of a data-processing instruction: an immediate or a
\* register, optionally shifted left
OperandValue(m, o, bits) ==
    IF o.k = "i" THEN Trunc(o.v, bits)
    ELSE IF "lsl" \in DOMAIN o THEN ShlBV(RegRead(m, o), o.lsl, bits)
    ELSE Trunc(RegRead(m, o), bits)

FlagsOf(r) ==
    (IF r.n = 1 THEN {NZCV_N} ELSE {}) \cup (IF r.z = 1 THEN {NZCV_Z} ELSE {})
    \cup (IF r.c = 1 THEN {NZCV_C} ELSE {}) \cup (IF r.v = 1 THEN {NZCV_V} ELSE {})

LogicFlags(v, bits) ==
    (IF (bits - 1) \in v THEN {NZCV_N} ELSE {}) \cup (IF v = {} THEN {NZCV_Z} ELSE {})

\* A64 condition codes
CondHolds(c, nzcv) ==
    LET N == NZCV_N \in nzcv
        Z == NZCV_Z \in nzcv
        C == NZCV_C \in nzcv
        V == NZCV_V \in nzcv
    IN  CASE c = "EQ" -> Z
          [] c = "NE" -> ~Z
          [] c = "HS" -> C
          [] c = "LO" -> ~C
          [] c = "MI" -> N
          [] c = "PL" -> ~N
          [] c = "VS" -> V
          [] c = "VC" -> ~V
          [] c = "HI" -> C /\ ~Z
          [] c = "LS" -> ~C \/ Z
          [] c = "GE" -> N = V
          [] c = "LT" -> N # V
          [] c = "GT" -> ~Z /\ N = V
          [] c = "LE" -> Z \/ N # V
          [] c = "AL" -> TRUE

negateCond(c) ==
    CASE c = "EQ" -> "NE" [] c = "NE" -> "EQ"
      [] c = "HS" -> "LO" [] c = "LO" -> "HS"
      [] c = "MI" -> "PL" [] c = "PL" -> "MI"
      [] c = "VS" -> "VC" [] c = "VC" -> "VS"
      [] c = "HI" -> "LS" [] c = "LS" -> "HI"
      [] c = "GE" -> "LT" [] c = "LT" -> "GE"
      [] c = "GT" -> "LE" [] c = "LE" -> "GT"
      [] c = "AL" -> "AL"

\* memory is a map from cells to 64-bit values; an access of sz bytes reads
\* or replaces the low sz bytes of the cell
MemRead(m, addr, sz) == Trunc(m.mem[addr], 8 * sz)
MemWrite(m, addr, sz, v) ==
    [m EXCEPT !.mem[addr] = (@ \ make_bitmask(8 * sz)) \cup Trunc(v, 8 * sz)]

SignExtend(v, from, to) ==
    IF (from - 1) \in v THEN Trunc(v, from) \cup (from .. (to - 1))
    ELSE Trunc(v, from)

(***************************************************************************)
(* The A64 instructions the back-end emits                                 *)
(***************************************************************************)
Bits(r) == 8 * r.w

AddSubResult(m, i, r) ==
    IF i.op \in {"adds", "subs", "adcs", "sbcs"}
    THEN [RegWrite(m, i.d, r.sum) EXCEPT !.nzcv = FlagsOf(r)]
    ELSE RegWrite(m, i.d, r.sum)
AddSubOperands(m, i, a, b, bits) ==
    AddSubResult(m, i,
        AddWithCarry(a,
                     IF i.op \in {"sub", "subs", "sbc", "sbcs"} THEN NotBV(b, bits) ELSE b,
                     CASE i.op \in {"add", "adds"} -> 0
                       [] i.op \in {"sub", "subs"} -> 1
                       [] OTHER -> Bit(m.nzcv, NZCV_C),
                     bits))
ExecAddSub(m, i) ==
    AddSubOperands(m, i, RegRead(m, i.n), OperandValue(m, i.m, Bits(i.n)), Bits(i.n))

LogicResult(m, i, r, bits) ==
    IF i.op = "ands" THEN [RegWrite(m, i.d, r) EXCEPT !.nzcv = LogicFlags(r, bits)]
    ELSE RegWrite(m, i.d, r)
LogicOperands(m, i, a, b, bits) ==
    LogicResult(m, i,
        CASE i.op \in {"and", "ands"} -> AndBV(a, b)
          [] i.op = "orr" -> OrBV(a, b)
          [] i.op = "eor" -> XorBV(a, b)
          [] i.op = "bic" -> BicBV(a, b)
          [] i.op = "orn" -> OrBV(a, NotBV(b, bits)),
        bits)
ExecLogic(m, i) ==
    LogicOperands(m, i, RegRead(m, i.n), OperandValue(m, i.m, Bits(i.n)), Bits(i.n))

\* shifts by a register take the count modulo the register width
ExecShift(m, i) ==
    LET bits == Bits(i.d)
        a == RegRead(m, i.n)
        cnt == IF i.m.k = "i" THEN ToNat(i.m.v) % bits
               ELSE ToNat(Trunc(RegRead(m, i.m), 6)) % bits
        r == CASE i.op = "lsl" -> ShlBV(a, cnt, bits)
               [] i.op = "lsr" -> LsrBV(a, cnt)
               [] i.op = "asr" -> AsrBV(a, cnt, bits)
               [] i.op = "ror" -> RorBV(a, cnt, bits)
    IN  RegWrite(m, i.d, r)

ExecBitfield(m, i) ==
    LET bits == Bits(i.d)
        src == RegRead(m, i.n)
        old == RegRead(m, i.d)
        field == Trunc(src, i.width)
    IN  CASE i.op = "bfi" ->
               RegWrite(m, i.d, (old \ (i.lsb .. (i.lsb + i.width - 1)))
                                \cup ShlBV(field, i.lsb, bits))
          [] i.op = "ubfx" ->
               RegWrite(m, i.d, Trunc(LsrBV(src, i.lsb), i.width))
          [] i.op = "sxtw" -> RegWrite(m, i.d, SignExtend(src, 32, bits))
          [] i.op = "sbfx" ->
               RegWrite(m, i.d, SignExtend(LsrBV(src, i.lsb), i.width, bits))
          [] i.op = "bfxil" ->
               RegWrite(m, i.d, (old \ make_bitmask(i.width))
                                \cup Trunc(LsrBV(src, i.lsb), i.width))
          [] i.op = "bfc" ->
               RegWrite(m, i.d, old \ (i.lsb .. (i.lsb + i.width - 1)))
          [] i.op = "ubfiz" ->
               RegWrite(m, i.d, ShlBV(field, i.lsb, bits))

ExecCond(m, i) ==
    LET bits == Bits(i.d)
        t == CondHolds(i.c, m.nzcv)
    IN  CASE i.op = "cset" -> RegWrite(m, i.d, IF t THEN {0} ELSE {})
          [] i.op = "csel" ->
               RegWrite(m, i.d, IF t THEN RegRead(m, i.n) ELSE RegRead(m, i.m))
          [] i.op = "csinc" ->
               RegWrite(m, i.d, IF t THEN RegRead(m, i.n)
                                ELSE AddBV(RegRead(m, i.m), {0}, bits))
          [] i.op = "csinv" ->
               RegWrite(m, i.d, IF t THEN RegRead(m, i.n)
                                ELSE NotBV(RegRead(m, i.m), bits))

MulDivOperands(m, i, a, b, bits) ==
    RegWrite(m, i.d,
        CASE i.op = "udiv" -> UDivBV(a, b, bits)
          [] i.op = "sdiv" -> SDivBV(a, b, bits)
          [] i.op = "mul" -> MulBV(a, b, bits)
          [] i.op = "umull" -> MulBV(a, b, 64)
          [] i.op = "smull" -> MulBV(SignExtend(a, 32, 64), SignExtend(b, 32, 64), 64)
          [] i.op = "umulh" -> LsrBV(MulWide(a, b), 64)
          [] i.op = "smulh" -> LsrBV(MulWideSigned(a, b), 64)
          [] i.op = "msub" -> SubBV(RegRead(m, i.a), MulBV(a, b, bits), bits))
ExecMulDiv(m, i) == MulDivOperands(m, i, RegRead(m, i.n), RegRead(m, i.m), Bits(i.d))

\* The cells <<"m", k>> are the quadwords of an array of the host at
\* ArrayBase.  An access at an address (a base register plus an offset, or an
\* absolute address) reads or writes sz bytes of the cell the address falls
\* in; what lies outside the cells reads as whatever the host keeps there and
\* is not kept when written.  The machine remembers its last such access.
ArrayBase == {30}
NoAccess == [at |-> {}, sz |-> 0, val |-> {}, store |-> FALSE]
ArrayOffset(address) == SubBV(address, ArrayBase, 64)
CellAt(offset) ==
    IF offset \subseteq 0 .. 20 THEN <<"m", ToNat(offset) \div 8>> ELSE <<"m", -1>>
ByteAt(offset) == ToNat(Trunc(offset, 3))
ArrayCell(address) == CellAt(ArrayOffset(address))
ArrayByte(address) == ByteAt(ArrayOffset(address))
Within(m, cell, byte, sz) == cell \in DOMAIN m.mem /\ byte + sz <= 8
ReadAt(m, cell, byte, sz) ==
    IF Within(m, cell, byte, sz) THEN Trunc(LsrBV(m.mem[cell], 8 * byte), 8 * sz)
    ELSE Trunc(m.env.junk, 8 * sz)
ReadOffset(m, offset, sz) == ReadAt(m, CellAt(offset), ByteAt(offset), sz)
ArrayRead(m, address, sz) == ReadOffset(m, ArrayOffset(address), sz)
WriteAt(m, cell, lo, sz, v, touched) ==
    IF Within(m, cell, lo \div 8, sz)
    THEN [m EXCEPT !.touched = touched,
                   !.mem[cell] = (@ \ (lo .. (lo + 8 * sz - 1))) \cup ShlBV(v, lo, 64)]
    ELSE [m EXCEPT !.touched = touched]
WriteOffset(m, offset, sz, v, touched) ==
    WriteAt(m, CellAt(offset), 8 * ByteAt(offset), sz, v, touched)
WriteValue(m, address, sz, v) ==
    WriteOffset(m, ArrayOffset(address), sz, v,
                [at |-> address, sz |-> sz, val |-> v, store |-> TRUE])
ArrayWrite(m, address, sz, v) == WriteValue(m, address, sz, Trunc(v, 8 * sz))
AccessAddress(m, i) == AddBV(RegRead(m, i.n), OperandValue(m, i.m, 64), 64)

ExecMove(m, i) ==
    CASE i.op = "mov" -> RegWrite(m, i.d, OperandValue(m, i.m, Bits(i.d)))
      [] i.op = "ldr" -> RegWrite(m, i.d, MemRead(m, i.addr, i.sz))
      [] i.op = "ldrs" ->
           RegWrite(m, i.d, SignExtend(MemRead(m, i.addr, i.sz), 8 * i.sz, Bits(i.d)))
      [] i.op = "str" -> MemWrite(m, i.addr, i.sz, RegRead(m, i.s))
      [] i.op = "mrs" -> RegWrite(m, i.d, m.nzcv)
      [] i.op = "msr" ->
           [m EXCEPT !.nzcv = RegRead(m, i.n) \cap {NZCV_N, NZCV_Z, NZCV_C, NZCV_V}]

\* IEEE 754 comparison on the bit patterns (w is 4 or 8 bytes)
FpMantissaBits(w) == IF w = 4 THEN 23 ELSE 52
FpIsNaN(v, w) ==
    /\ (FpMantissaBits(w) .. (8 * w - 2)) \subseteq v
    /\ v \cap make_bitmask(FpMantissaBits(w)) # {}
FpMagnitude(v, w) == Trunc(v, 8 * w - 1)
FpNegative(v, w) == (8 * w - 1) \in v
FpUnordered(a, b, w) == FpIsNaN(a, w) \/ FpIsNaN(b, w)
FpEqual(a, b, w) ==
    /\ ~FpUnordered(a, b, w)
    /\ \/ Trunc(a, 8 * w) = Trunc(b, 8 * w)
       \/ FpMagnitude(a, w) = {} /\ FpMagnitude(b, w) = {}
FpLess(a, b, w) ==
    /\ ~FpUnordered(a, b, w)
    /\ ~FpEqual(a, b, w)
    /\ IF FpNegative(a, w) # FpNegative(b, w) THEN FpNegative(a, w)
       ELSE IF FpNegative(a, w) THEN LessBV(FpMagnitude(b, w), FpMagnitude(a, w))
       ELSE LessBV(FpMagnitude(a, w), FpMagnitude(b, w))

\* fcmp: less 1000, equal 0110, greater 0010, unordered 0011
FcmpFlags(a, b, w) ==
    IF FpUnordered(a, b, w) THEN {NZCV_C, NZCV_V}
    ELSE IF FpEqual(a, b, w) THEN {NZCV_Z, NZCV_C}
    ELSE IF FpLess(a, b, w) THEN {NZCV_N}
    ELSE {NZCV_C}

VecRead(m, r) == Trunc(m.d[r.n], 8 * r.w)
VecWrite(m, r, v) == [m EXCEPT !.d[r.n] = Trunc(v, 8 * r.w)]

\* a load or a store of sz bytes at an address, of a general or of a vector
\* register
LoadedAt(m, i, address, loaded) ==
    IF i.vec
    THEN VecWrite([m EXCEPT !.touched = [at |-> address, sz |-> i.sz, val |-> loaded,
                                         store |-> FALSE]], i.r, loaded)
    ELSE RegWrite([m EXCEPT !.touched = [at |-> address, sz |-> i.sz, val |-> loaded,
                                         store |-> FALSE]], i.r, loaded)
AccessAt(m, i, address) ==
    CASE i.op = "ldr_mem" -> LoadedAt(m, i, address, ArrayRead(m, address, i.sz))
      [] i.op = "str_mem" ->
           ArrayWrite(m, address, i.sz, IF i.vec THEN VecRead(m, i.r) ELSE RegRead(m, i.r))
ExecAccess(m, i) == AccessAt(m, i, AccessAddress(m, i))

ExecFloat(m, i) ==
    CASE i.op = "fcmp" ->
           [m EXCEPT !.nzcv = FcmpFlags(VecRead(m, i.n), VecRead(m, i.m), i.n.w)]
      [] i.op = "fmov" -> VecWrite(m, i.d, VecRead(m, i.n))
      [] i.op = "fmov_from_gp" -> VecWrite(m, i.d, RegRead(m, i.n))
      [] i.op = "fmov_to_gp" -> RegWrite(m, i.d, VecRead(m, i.n))
      [] i.op = "fcsel" ->
           VecWrite(m, i.d, IF CondHolds(i.c, m.nzcv) THEN VecRead(m, i.n)
                            ELSE VecRead(m, i.m))
      [] i.op = "ldrf" -> VecWrite(m, i.d, MemRead(m, i.addr, i.d.w))
      [] i.op = "strf" -> MemWrite(m, i.addr, i.s.w, VecRead(m, i.s))

\* the frame pair pushed by a handle's entry and popped by a return
FP == 29
LR == 30
\* The stack grows down from the frame the entry point built at FrameBase:
\* that frame holds the caller's FP and LR and above them the caller's other
\* non-volatile registers, up to the caller's stack pointer EntrySp.  stack is
\* what lies between SP and FrameBase, one pair of 8-byte words per frame.
FrameBase == {20}
FrameSize == {5, 7}
EntrySp == AddBV(FrameBase, FrameSize, 64)
ExecStack(m, i) ==
    CASE i.op = "stp_fp_lr" ->
           [m EXCEPT !.stack = Append(@, [fp |-> m.x[FP], lr |-> m.x[LR]]),
                     !.sp = SubBV(@, {4}, 64)]
      [] i.op = "ldp_fp_lr" ->
           IF m.stack = <<>>
           THEN [m EXCEPT !.x[FP] = m.frame[FP], !.x[LR] = m.frame[LR],
                          !.sp = AddBV(@, {4}, 64)]
           ELSE [m EXCEPT !.stack = SubSeq(@, 1, Len(@) - 1),
                          !.x[FP] = m.stack[Len(m.stack)].fp,
                          !.x[LR] = m.stack[Len(m.stack)].lr,
                          !.sp = AddBV(@, {4}, 64)]
      [] i.op = "mov_sp_fp" ->
           [m EXCEPT !.sp = m.x[FP],
                     !.stack = IF m.x[FP] = FrameBase THEN <<>> ELSE @]
      \* the prologue of the entry point builds the frame and points FP at it
      [] i.op = "prolog" ->
           [m EXCEPT !.frame = [n \in DOMAIN m.frame |->
                                  IF n < 32 THEN m.x[n] ELSE m.d[n - 32]],
                     !.sp = SubBV(m.sp, FrameSize, 64),
                     !.x[FP] = SubBV(m.sp, FrameSize, 64)]
      \* the epilogue reloads the registers from the frame at SP; anywhere
      \* else it finds whatever lies there
      [] i.op = "epilog" ->
           [m EXCEPT !.x = [n \in DOMAIN m.x |->
                              IF n \notin DOMAIN m.frame THEN m.x[n]
                              ELSE IF m.sp = FrameBase THEN m.frame[n] ELSE m.env.junk],
                     !.d = [n \in DOMAIN m.d |->
                              IF (n + 32) \notin DOMAIN m.frame THEN m.d[n]
                              ELSE IF m.sp = FrameBase THEN m.frame[n + 32]
                              ELSE m.env.junk],
                     !.sp = AddBV(m.sp, FrameSize, 64)]
      \* the saved LR of the first frame, at FP - 8; with no frame pushed
      \* that slot holds whatever the stack held before
      [] i.op = "ldr_frame_lr" ->
           RegWrite(m, i.d, IF m.stack = <<>> THEN m.env.junk ELSE m.stack[1].lr)

\* a call of a host function: the caller-saved registers and the condition
\* codes come back holding whatever the function left in them, and the
\* function leaves its mark in the memory it was handed
CallerSavedGp == 0 .. 18
CallerSavedVec == (0 .. 7) \cup (16 .. 31)
HostMark == {63}
ExecHostCall(m, i) ==
    [m EXCEPT !.mem[i.arg] = XorBV(@, HostMark),
              !.x = [n \in DOMAIN m.x |-> IF n \in CallerSavedGp THEN m.env.junk ELSE m.x[n]],
              !.d = [n \in DOMAIN m.d |-> IF n \in CallerSavedVec THEN m.env.junk ELSE m.d[n]],
              !.nzcv = m.env.nzcv]

\* The hash table (drc_hash_table): base[mode] points to a level-one table,
\* whose entries point to level-two tables, whose entries are code pointers.
\* A mode without code shares the empty level-one table, whose entries point
\* to the empty level-two table, whose entries are the no-code point.
HashGeometry == [modes |-> 2, l1bits |-> 1, l2bits |-> 1, l1shift |-> 13, l2shift |-> 12]
HashModes == 0 .. (HashGeometry.modes - 1)
hash_l1val(pc) == ToNat(Trunc(LsrBV(pc, HashGeometry.l1shift), HashGeometry.l1bits))
hash_l2val(pc) == ToNat(Trunc(LsrBV(pc, HashGeometry.l2shift), HashGeometry.l2bits))
HashL1(mode, l1) == 2 * mode + l1
HashL2(mode, l1, l2) == 4 * mode + 2 * l1 + l2
HashSlot(mode, pc) == HashL2(mode, hash_l1val(pc), hash_l2val(pc))

\* where the tables lie in the memory of the host
HashBaseAddr == FromNat(1024)
L1TableAddr(mode) == FromNat(2048 + 16 * mode)
EmptyL1Addr == FromNat(3072)
L2TableAddr(mode, l1) == FromNat(4096 + 16 * HashL1(mode, l1))
EmptyL2Addr == FromNat(5120)

\* addresses of generated code: the no-code point, the label behind the
\* branch of a HASHJMP, the code of a handle, the code registered by a HASH
m_nocode == {16}
LabelAddress == {16, 3}
Handles == {0, 1}
HandleCode(id) == {16, 8} \cup ShlBV(FromNat(id), 4, 64)
HashCode(slot) == {16, 9} \cup ShlBV(FromNat(slot), 4, 64)

\* the 8-byte word at an address of the host: a word of the hash table, or,
\* outside the table, whatever the host keeps there
InTable(n, first, words) == n >= first /\ n < first + 8 * words /\ n % 8 = 0
HostWordAt(m, n) ==
    CASE InTable(n, 1024, 2) -> m.mem[<<"hash.base", (n - 1024) \div 8>>]
      [] InTable(n, 2048, 4) -> m.mem[<<"hash.l1", (n - 2048) \div 8>>]
      [] InTable(n, 3072, 2) -> EmptyL2Addr
      [] InTable(n, 4096, 8) -> m.mem[<<"hash.l2", (n - 4096) \div 8>>]
      [] InTable(n, 5120, 2) -> m_nocode
      [] OTHER -> m.env.junk
\* the dispatch table of an address space (specific.read.dispatch,
\* specific.write.dispatch): entry k points to the handler of the addresses
\* whose bits above low_bits are k
DispatchBit == {44}
DispatchTable == DispatchBit
DispatchEntry(k) == {45} \cup ShlBV(k, 4, 40)
InDispatch(addr) ==
    DispatchBit \subseteq addr /\ addr \subseteq 0 .. 44 /\ addr \cap (0 .. 2) = {}
HostWord(m, addr) ==
    IF addr \subseteq 0 .. 12 THEN HostWordAt(m, ToNat(addr))
    ELSE IF InDispatch(addr) THEN DispatchEntry(LsrBV(addr \ DispatchBit, 3))
    ELSE m.env.junk

\* a load of a word of the host at a base register plus an offset (an
\* immediate, or an index register shifted left)
ExecHostWord(m, i) ==
    RegWrite(m, i.d, HostWord(m, AddBV(RegRead(m, i.n), OperandValue(m, i.m, 64), 64)))

\* a call of a host function that is handed no UML memory (an accessor of an
\* address space, the debugger hook...): its result comes back in the first
\* parameter register, the other caller-saved registers hold what it left
ExecHostFn(m, i) ==
    [m EXCEPT !.called = [obj |-> m.x[REG_PARAM1], address |-> m.x[REG_PARAM2]],
              !.x = [n \in DOMAIN m.x |-> IF n \in CallerSavedGp THEN m.env.junk ELSE m.x[n]],
              !.d = [n \in DOMAIN m.d |-> IF n \in CallerSavedVec THEN m.env.junk ELSE m.d[n]],
              !.nzcv = m.env.nzcv]

\* a load from a structure of the host (a dispatch table, a table of virtual
\* member functions): the register holds whatever the host keeps there
ExecHostLoad(m, i) == RegWrite(m, i.d, m.env.junk)

Exec(m, i) ==
    CASE i.op \in {"add", "adds", "sub", "subs", "adc", "adcs", "sbc", "sbcs"} ->
           ExecAddSub(m, i)
      [] i.op \in {"and", "ands", "orr", "eor", "bic", "orn"} -> ExecLogic(m, i)
      [] i.op \in {"lsl", "lsr", "asr", "ror"} -> ExecShift(m, i)
      [] i.op \in {"bfi", "ubfx", "sbfx", "bfxil", "bfc", "ubfiz", "sxtw"} ->
           ExecBitfield(m, i)
      [] i.op \in {"cset", "csel", "csinc", "csinv"} -> ExecCond(m, i)
      [] i.op \in {"udiv", "sdiv", "mul", "msub", "umull", "smull", "umulh", "smulh"} ->
           ExecMulDiv(m, i)
      [] i.op \in {"mov", "ldr", "ldrs", "str", "mrs", "msr"} -> ExecMove(m, i)
      [] i.op \in {"fcmp", "fmov", "fmov_from_gp", "fmov_to_gp", "fcsel",
                   "ldrf", "strf"} -> ExecFloat(m, i)
      [] i.op \in {"stp_fp_lr", "ldp_fp_lr", "mov_sp_fp", "ldr_frame_lr", "prolog", "epilog"} ->
           ExecStack(m, i)
      [] i.op = "hostcall" -> ExecHostCall(m, i)
      [] i.op = "hostfn" -> ExecHostFn(m, i)
      [] i.op = "ldr_host" -> ExecHostLoad(m, i)
      [] i.op = "ldr_at" -> ExecHostWord(m, i)
      [] i.op \in {"ldr_mem", "str_mem"} -> ExecAccess(m, i)
      [] i.op = "adr" -> RegWrite(m, i.d, LabelAddress)
      [] i.op = "bind" -> m

\* branch targets: a label local to the code of one UML instruction, or a
\* place elsewhere in the cache (a UML label, a handle, the exit point...)
Local(l) == [loc |-> TRUE, id |-> l]
Far(kind, id) == [loc |-> FALSE, kind |-> kind, id |-> id]

BranchTaken(m, i) ==
    CASE i.op = "b" -> TRUE
      [] i.op = "bcond" -> CondHolds(i.c, m.nzcv)
      [] i.op = "cbz" -> RegRead(m, i.n) = {}
      [] i.op = "cbnz" -> RegRead(m, i.n) # {}
      [] i.op = "tbz" -> i.bit \notin m.x[i.n.n]
      [] i.op = "tbnz" -> i.bit \in m.x[i.n.n]
      [] i.op \in {"bl", "ret", "br", "blr"} -> TRUE

IsBranch(i) ==
    i.op \in {"b", "bcond", "cbz", "cbnz", "tbz", "tbnz", "bl", "ret", "br", "blr"}

\* where a branch through a register arrives: at the code of a handle, at
\* code registered in the hash table, at the no-code point, at the label whose
\* address ADR took, or at no code at all
CodeAt(v) ==
    IF \E id \in Handles : v = HandleCode(id)
    THEN Far("call", CHOOSE id \in Handles : v = HandleCode(id))
    ELSE IF \E slot \in 0 .. 7 : v = HashCode(slot)
    THEN Far("hash", CHOOSE slot \in 0 .. 7 : v = HashCode(slot))
    ELSE IF v = m_nocode THEN Far("nocode", 0)
    ELSE IF v = LabelAddress THEN Local("lab")
    ELSE Far("wild", 0)
\* the no-code point branches to the address in REG_PARAM1
nocode_point(m, t) == IF ~t.loc /\ t.kind = "nocode" THEN CodeAt(m.x[REG_PARAM1]) ELSE t
Arrival(m, i) == nocode_point(m, CodeAt(m.x[i.n.n]))

FindLabel(code, l) ==
    CHOOSE j \in 1 .. Len(code) : code[j].op = "bind" /\ code[j].l = l

\* run the code from position pc until it falls off its end (ctl stays
\* "next") or control leaves it (ctl says how, tgt where to)
RECURSIVE Run(_, _, _)
RunStep(code, pc, m) == IF m.ctl # "next" THEN m ELSE Run(code, pc, m)
Run(code, pc, m) ==
    IF pc > Len(code) THEN m
    ELSE LET i == code[pc]
         IN  IF ~IsBranch(i) THEN RunStep(code, pc + 1, Exec(m, i))
             ELSE IF ~BranchTaken(m, i) THEN Run(code, pc + 1, m)
             ELSE IF i.op = "ret" THEN [m EXCEPT !.ctl = "ret"]
             ELSE LET t == IF i.op \in {"br", "blr"} THEN Arrival(m, i) ELSE i.t
                  IN  IF t.loc THEN Run(code, FindLabel(code, t.id) + 1, m)
                      ELSE [m EXCEPT !.ctl = t.kind, !.tgt = t.id]

(***************************************************************************)
(* The code generator: m_carry_state and the emitted instructions          *)
(***************************************************************************)
POISON == "POISON"
CANONICAL == "CANONICAL"
LOGICAL == "LOGICAL"
carry_state == {POISON, CANONICAL, LOGICAL}

Emit(g, i) == [g EXCEPT !.code = Append(@, i)]
Op2(op, d, n) == [op |-> op, d |-> d, n |-> n]
Op3(op, d, n, m) == [op |-> op, d |-> d, n |-> n, m |-> m]
Bitfield(op, d, n, lsb, width) ==
    [op |-> op, d |-> d, n |-> n, lsb |-> lsb, width |-> width]
Mov(d, m) == [op |-> "mov", d |-> d, m |-> m]
Cset(d, c) == [op |-> "cset", d |-> d, c |-> c]
Bind(l) == [op |-> "bind", l |-> l]

\* UML conditions and their A64 condition codes
COND_ALWAYS == "ALWAYS"
Conditions ==
    {"Z", "NZ", "S", "NS", "C", "NC", "V", "NV", "U", "NU",
     "A", "BE", "G", "LE", "L", "GE"}
condition_map(cond) ==
    CASE cond = "Z" -> "EQ" [] cond = "NZ" -> "NE"
      [] cond = "S" -> "MI" [] cond = "NS" -> "PL"
      [] cond = "C" -> "LO" [] cond = "NC" -> "HS"
      [] cond = "V" -> "VS" [] cond = "NV" -> "VC"
      [] cond = "U" -> "AL" [] cond = "NU" -> "AL"
      [] cond = "A" -> "HI" [] cond = "BE" -> "LS"
      [] cond = "G" -> "GT" [] cond = "LE" -> "LE"
      [] cond = "L" -> "LT" [] cond = "GE" -> "GE"
ARM_CONDITION(cond) == condition_map(cond)
\* a negation that is none
unnegated_condition(cond) == condition_map(cond)
ARM_NOT_CONDITION(cond) == negateCond(condition_map(cond))

\* back-end parameters
ImmP(v) == [t |-> "imm", v |-> v]
IRegP(i) == [t |-> "ireg", n |-> int_register_map(i)]
FRegP(i) == [t |-> "freg", n |-> float_register_map(i)]
MemP(a) == [t |-> "mem", a |-> a, cold |-> FALSE]
LabelP(id) == [t |-> "label", id |-> id]
HandleP(id) == [t |-> "handle", id |-> id]
is_immediate(p) == p.t = "imm"
is_immediate_value(p, v) == p.t = "imm" /\ p.v = v
is_int_register(p) == p.t = "ireg"
is_float_register(p) == p.t = "freg"
is_memory(p) == p.t = "mem"
is_cold_register(p) == p.t = "mem" /\ p.cold
get_register_int(p, regsize) == [k |-> "r", n |-> p.n, w |-> regsize]
get_register_float(p, regsize) == [k |-> "r", n |-> p.n, w |-> regsize]
param_select_register(p, reg, regsize) ==
    IF p.t \in {"ireg", "freg"} THEN [k |-> "r", n |-> p.n, w |-> regsize]
    ELSE select_register(reg, regsize)

is_valid_immediate(val, bits) == val \subseteq make_bitmask(bits)
is_valid_immediate_addsub(val) ==
    val \subseteq make_bitmask(12) \/ val \subseteq (12 .. 23)

\* every way of materialising a constant leaves the constant in the register
get_imm_relative(g, reg, val) == Emit(g, Mov(reg, Imm(val)))

emit_ldr_mem(g, reg, ptr) == Emit(g, [op |-> "ldr", d |-> reg, addr |-> ptr, sz |-> reg.w])
emit_ldrb_mem(g, reg, ptr) == Emit(g, [op |-> "ldr", d |-> reg, addr |-> ptr, sz |-> 1])
emit_str_mem(g, reg, ptr) == Emit(g, [op |-> "str", s |-> reg, addr |-> ptr, sz |-> reg.w])
emit_strb_mem(g, reg, ptr) == Emit(g, [op |-> "str", s |-> reg, addr |-> ptr, sz |-> 1])
emit_float_ldr_mem(g, reg, ptr) == Emit(g, [op |-> "ldrf", d |-> reg, addr |-> ptr])
emit_float_str_mem(g, reg, ptr) == Emit(g, [op |-> "strf", s |-> reg, addr |-> ptr])

mov_reg_param(g, regsize, dst, src) ==
    IF is_immediate(src)
    THEN get_imm_relative(g, select_register(dst, regsize),
                          IF regsize = 4 THEN Trunc(src.v, 32) ELSE src.v)
    ELSE IF is_int_register(src) /\ dst.n # src.n
    THEN Emit(g, Mov(select_register(dst, regsize), get_register_int(src, regsize)))
    ELSE IF is_memory(src)
    THEN emit_ldr_mem(g, select_register(dst, regsize), src.a)
    ELSE g

mov_param_reg(g, regsize, dst, src) ==
    IF is_memory(dst)
    THEN IF is_cold_register(dst) THEN emit_str_mem(g, select_register(src, 8), dst.a)
         ELSE emit_str_mem(g, select_register(src, regsize), dst.a)
    ELSE IF is_int_register(dst) /\ src.n # dst.n
    THEN Emit(g, Mov(get_register_int(dst, regsize), select_register(src, regsize)))
    ELSE g

mov_param_imm(g, regsize, dst, src) ==
    IF is_memory(dst)
    THEN LET movsize == IF is_cold_register(dst) THEN 8 ELSE regsize
         IN  IF src = {}
             THEN emit_str_mem(g, select_register(XReg(zr), movsize), dst.a)
             ELSE LET scratch == select_register(XReg(SCRATCH_REG2), movsize)
                  IN  emit_str_mem(
                          get_imm_relative(g, scratch,
                                           IF regsize = 4 THEN Trunc(src, 32) ELSE src),
                          scratch, dst.a)
    ELSE IF is_int_register(dst)
    THEN get_imm_relative(g, get_register_int(dst, regsize), src)
    ELSE g

mov_param_param(g, regsize, dst, src) ==
    IF is_memory(src)
    THEN IF is_int_register(dst)
         THEN mov_reg_param(g, regsize, get_register_int(dst, regsize), src)
         ELSE mov_param_reg(mov_reg_param(g, regsize, XReg(SCRATCH_REG1), src),
                            regsize, dst, XReg(SCRATCH_REG1))
    ELSE IF is_int_register(src)
    THEN mov_param_reg(g, regsize, dst, get_register_int(src, regsize))
    ELSE IF is_immediate(src)
    THEN mov_param_imm(g, regsize, dst, src.v)
    ELSE g

mov_mem_param(g, regsize, dst, src) ==
    LET scratch == select_register(XReg(SCRATCH_REG2), regsize)
    IN  IF is_immediate_value(src, {})
        THEN emit_str_mem(g, select_register(XReg(zr), regsize), dst)
        ELSE IF is_immediate(src)
        THEN emit_str_mem(
                 get_imm_relative(g, scratch,
                                  IF regsize = 4 THEN Trunc(src.v, 32) ELSE src.v),
                 scratch, dst)
        ELSE IF is_memory(src)
        THEN emit_str_mem(emit_ldr_mem(g, scratch, src.a), scratch, dst)
        ELSE IF is_int_register(src)
        THEN emit_str_mem(g, get_register_int(src, regsize), dst)
        ELSE g

mov_float_reg_param(g, regsize, dst, src) ==
    IF is_memory(src) THEN emit_float_ldr_mem(g, select_register(dst, regsize), src.a)
    ELSE IF is_float_register(src) /\ dst.n # src.n
    THEN Emit(g, [op |-> "fmov", d |-> select_register(dst, regsize),
                  n |-> get_register_float(src, regsize)])
    ELSE g

mov_float_param_reg(g, regsize, dst, src) ==
    IF is_memory(dst) THEN emit_float_str_mem(g, select_register(src, regsize), dst.a)
    ELSE IF is_float_register(dst) /\ src.n # dst.n
    THEN Emit(g, [op |-> "fmov", d |-> get_register_float(dst, regsize),
                  n |-> select_register(src, regsize)])
    ELSE g

mov_float_param_param(g, regsize, dst, src) ==
    IF is_float_register(dst)
    THEN mov_float_reg_param(g, regsize, get_register_float(dst, regsize), src)
    ELSE IF is_memory(dst)
    THEN IF is_float_register(src)
         THEN mov_float_param_reg(g, regsize, dst, get_register_float(src, regsize))
         ELSE IF is_memory(src)
         THEN LET scratch == select_register(XReg(SCRATCH_REG2), regsize)
              IN  emit_str_mem(emit_ldr_mem(g, scratch, src.a), scratch, dst.a)
         ELSE g
    ELSE g

\* a store_unordered that inserts the carry condition
store_unordered_as_carry(g) ==
    Emit(Emit(g, Cset(XReg(SCRATCH_REG2), "HS")),
         Bitfield("bfi", XReg(FLAGS_REG), XReg(SCRATCH_REG2), FLAG_BIT_U, 1))

store_unordered(g) ==
    LET g1 == Emit(g, Cset(XReg(SCRATCH_REG1), "PL"))
        g2 == Emit(g1, Cset(XReg(SCRATCH_REG2), "NE"))
        g3 == Emit(g2, Op3("and", XReg(SCRATCH_REG1), XReg(SCRATCH_REG1), XReg(SCRATCH_REG2)))
        g4 == Emit(g3, Cset(XReg(SCRATCH_REG2), "HS"))
        g5 == Emit(g4, Op3("and", XReg(SCRATCH_REG1), XReg(SCRATCH_REG1), XReg(SCRATCH_REG2)))
        g6 == Emit(g5, Cset(XReg(SCRATCH_REG2), "VS"))
        g7 == Emit(g6, Op3("and", XReg(SCRATCH_REG1), XReg(SCRATCH_REG1), XReg(SCRATCH_REG2)))
    IN  Emit(g7, Bitfield("bfi", XReg(FLAGS_REG), XReg(SCRATCH_REG2), FLAG_BIT_U, 1))

get_unordered(g, reg) ==
    Emit(g, Bitfield("ubfx", select_register(reg, 8), XReg(FLAGS_REG), FLAG_BIT_U, 1))

store_carry_reg(g, reg) ==
    Emit(g, Bitfield("bfi", XReg(FLAGS_REG), select_register(reg, 8), FLAG_BIT_C, 1))

get_carry(g, reg, inverted) ==
    LET g1 == Emit(g, Op3("and", select_register(reg, 8), XReg(FLAGS_REG), Imm({0})))
    IN  IF inverted
        THEN Emit(g1, Op3("eor", select_register(reg, 8), select_register(reg, 8), Imm({0})))
        ELSE g1

\* a store_carry that took the native flag for the carry whatever the
\* instruction before it was
store_carry_as_carry(g, inverted) ==
    LET g1 == [g EXCEPT !.carry = CANONICAL]
        g2 == Emit(g1, Cset(XReg(SCRATCH_REG1), IF inverted THEN "LO" ELSE "HS"))
    IN  store_carry_reg(g2, XReg(SCRATCH_REG1))

store_carry(g, inverted) ==
    LET g1 == [g EXCEPT !.carry = IF inverted THEN LOGICAL ELSE CANONICAL]
        g2 == Emit(g1, Cset(XReg(SCRATCH_REG1), IF inverted THEN "LO" ELSE "HS"))
    IN  store_carry_reg(g2, XReg(SCRATCH_REG1))

load_carry_always(g, inverted) ==
    LET g1 == [g EXCEPT !.carry = IF inverted THEN LOGICAL ELSE CANONICAL]
        g2 == Emit(g1, [op |-> "mrs", d |-> XReg(SCRATCH_REG1)])
        g3 == Emit(g2, Bitfield("bfi", XReg(SCRATCH_REG1), XReg(FLAGS_REG), NZCV_C, 1))
        g4 == IF inverted
              THEN Emit(g3, Op3("eor", XReg(SCRATCH_REG1), XReg(SCRATCH_REG1), Imm({NZCV_C})))
              ELSE g3
    IN  Emit(g4, [op |-> "msr", n |-> XReg(SCRATCH_REG1)])
load_carry(g, inverted) ==
    LET desired == IF inverted THEN LOGICAL ELSE CANONICAL
        g1 == [g EXCEPT !.carry = desired]
        g2 == Emit(g1, [op |-> "mrs", d |-> XReg(SCRATCH_REG1)])
        g3 == Emit(g2, Bitfield("bfi", XReg(SCRATCH_REG1), XReg(FLAGS_REG), NZCV_C, 1))
        g4 == IF inverted
              THEN Emit(g3, Op3("eor", XReg(SCRATCH_REG1), XReg(SCRATCH_REG1), Imm({NZCV_C})))
              ELSE g3
    IN  IF desired # g.carry
        THEN Emit(g4, [op |-> "msr", n |-> XReg(SCRATCH_REG1)])
        ELSE g

\* the condition codes set from the flags register, which is left as it is
set_flags_unmasked(g) ==
    LET g1 == [g EXCEPT !.carry = POISON]
        g2 == Emit(g1, [op |-> "mrs", d |-> XReg(TEMP_REG1)])
        g3 == Emit(g2, Op3("and", XReg(TEMP_REG2), XReg(FLAGS_REG), Imm(FLAG_Z \cup FLAG_S)))
        g4 == Emit(g3, Bitfield("ubfx", XReg(TEMP_REG3), XReg(FLAGS_REG), FLAG_BIT_V, 1))
        g5 == Emit(g4, Op3("orr", XReg(TEMP_REG2), XReg(TEMP_REG2), XReg(TEMP_REG3)))
        g6 == Emit(g5, Bitfield("bfi", XReg(TEMP_REG1), XReg(TEMP_REG2), NZCV_V, 4))
    IN  Emit(g6, [op |-> "msr", n |-> XReg(TEMP_REG1)])
set_flags(g) ==
    LET g1 == [g EXCEPT !.carry = POISON]
        g2 == Emit(g1, [op |-> "mrs", d |-> XReg(TEMP_REG1)])
        g3 == Emit(g2, Op3("and", XReg(TEMP_REG2), XReg(FLAGS_REG), Imm(FLAG_Z \cup FLAG_S)))
        g4 == Emit(g3, Bitfield("ubfx", XReg(TEMP_REG3), XReg(FLAGS_REG), FLAG_BIT_V, 1))
        g5 == Emit(g4, Op3("orr", XReg(TEMP_REG2), XReg(TEMP_REG2), XReg(TEMP_REG3)))
        g6 == Emit(g5, Bitfield("bfi", XReg(TEMP_REG1), XReg(TEMP_REG2), NZCV_V, 4))
        g7 == Emit(g6, [op |-> "msr", n |-> XReg(TEMP_REG1)])
        g8 == Emit(g7, Mov(XReg(TEMP_REG2), Imm(FLAG_C \cup FLAG_U)))
    IN  Emit(g8, Op3("and", XReg(FLAGS_REG), XReg(FLAGS_REG), XReg(TEMP_REG2)))

calculate_carry_shift_left(g, reg, shift, maxBits) ==
    LET scratch == select_register(XReg(SCRATCH_REG1), reg.w)
        g1 == [g EXCEPT !.carry = POISON]
        g2 == Emit(g1, [op |-> "cbnz", n |-> shift, t |-> Local("calc")])
        g3 == store_carry_reg(g2, XReg(zr))
        g4 == Emit(g3, [op |-> "b", t |-> Local("end")])
        g5 == Emit(g4, Bind("calc"))
        g6 == Emit(g5, Mov(scratch, Imm(FromNat(maxBits + 1))))
        g7 == Emit(g6, Op3("sub", scratch, scratch, shift))
        g8 == Emit(g7, Op3("lsr", scratch, reg, scratch))
        g9 == store_carry_reg(g8, scratch)
    IN  Emit(g9, Bind("end"))

calculate_carry_shift_left_imm(g, reg, shift, maxBits) ==
    LET scratch == select_register(XReg(SCRATCH_REG1), reg.w)
        g1 == [g EXCEPT !.carry = POISON]
    IN  IF shift = 0 THEN store_carry_reg(g1, XReg(zr))
        ELSE store_carry_reg(
                 Emit(g1, Op3("lsr", scratch, reg, Imm(FromNat(maxBits + 1 - shift)))),
                 scratch)

calculate_carry_shift_right(g, reg, shift) ==
    LET scratch == select_register(XReg(SCRATCH_REG1), reg.w)
        g1 == [g EXCEPT !.carry = POISON]
        g2 == Emit(g1, [op |-> "cbnz", n |-> shift, t |-> Local("calc")])
        g3 == store_carry_reg(g2, XReg(zr))
        g4 == Emit(g3, [op |-> "b", t |-> Local("end")])
        g5 == Emit(g4, Bind("calc"))
        g6 == Emit(g5, Op3("sub", scratch, shift, Imm({0})))
        g7 == Emit(g6, Op3("lsr", scratch, reg, scratch))
        g8 == store_carry_reg(g7, scratch)
    IN  Emit(g8, Bind("end"))

\* a carry taken from the bit at the count, not from the one below it
calculate_carry_shift_right_imm_at_count(g, reg, shift) ==
    LET scratch == select_register(XReg(SCRATCH_REG1), reg.w)
        g1 == [g EXCEPT !.carry = POISON]
    IN  IF shift = 0 THEN store_carry_reg(g1, XReg(zr))
        ELSE store_carry_reg(
                 Emit(g1, Op3("lsr", scratch, reg, Imm(FromNat(shift)))), scratch)

calculate_carry_shift_right_imm(g, reg, shift) ==
    LET scratch == select_register(XReg(SCRATCH_REG1), reg.w)
        g1 == [g EXCEPT !.carry = POISON]
    IN  IF shift = 0 THEN store_carry_reg(g1, XReg(zr))
        ELSE store_carry_reg(
                 Emit(g1, Op3("lsr", scratch, reg, Imm(FromNat(shift - 1)))), scratch)

\* branch to the skip point if the condition is not met
emit_skip(g, cond) ==
    IF cond = COND_ALWAYS THEN g
    ELSE IF cond = "U"
    THEN Emit(g, [op |-> "tbz", n |-> XReg(FLAGS_REG), bit |-> FLAG_BIT_U, t |-> Local("skip")])
    ELSE IF cond = "NU"
    THEN Emit(g, [op |-> "tbnz", n |-> XReg(FLAGS_REG), bit |-> FLAG_BIT_U, t |-> Local("skip")])
    ELSE IF cond \in {"C", "NC"}
    THEN CASE g.carry = CANONICAL ->
                Emit(g, [op |-> "bcond", c |-> ARM_CONDITION(cond), t |-> Local("skip")])
           [] g.carry = LOGICAL ->
                Emit(g, [op |-> "bcond", c |-> ARM_NOT_CONDITION(cond), t |-> Local("skip")])
           [] OTHER ->
                Emit(g, [op |-> IF cond = "C" THEN "tbz" ELSE "tbnz",
                         n |-> XReg(FLAGS_REG), bit |-> FLAG_BIT_C, t |-> Local("skip")])
    ELSE LET g1 == IF cond \in {"A", "BE"} THEN load_carry(g, TRUE) ELSE g
         IN  Emit(g1, [op |-> "bcond", c |-> ARM_NOT_CONDITION(cond), t |-> Local("skip")])

\* the skip label is bound only if emit_skip created it
bind_skip(g, cond) == IF cond = COND_ALWAYS THEN g ELSE Emit(g, Bind("skip"))

(***************************************************************************)
(* Immediate classification                                                *)
(***************************************************************************)
\* a repeating power-of-two group whose set bits are contiguous
is_valid_immediate_mask(val, bytes) ==
    LET bits == bytes * 8
        width == CHOOSE w \in {2, 4, 8, 16, 32, 64} :
                   /\ w >= bits \/ Trunc(val, bits - w) = LsrBV(val, w)
                   /\ \A v \in {2, 4, 8, 16, 32, 64} :
                        v < w => ~(v >= bits \/ Trunc(val, bits - v) = LsrBV(val, v))
        lz == count_leading_zeros_64(Trunc(val, width))
        invleftaligned == NotBV(ShlBV(val, lz, 64), 64)
    IN  IF val = {} \/ ~(\E b \in make_bitmask(bits) : b \notin val)
           \/ ~(val \subseteq make_bitmask(bits))
        THEN FALSE
        ELSE AndBV(invleftaligned, AddBV(invleftaligned, {0}, 64)) = {}

LSL0_MASK == 0 .. 15
LSL16_MASK == 16 .. 31
LSL32_MASK == 32 .. 47
LSL48_MASK == 48 .. 63
is_simple_mov_immediate(val, bytes) ==
    LET inv == NotBV(val, 64)
    IN  \/ val \subseteq LSL0_MASK \/ val \subseteq LSL16_MASK
        \/ val \subseteq LSL32_MASK \/ val \subseteq LSL48_MASK
        \/ inv \subseteq LSL0_MASK \/ inv \subseteq LSL16_MASK
        \/ inv \subseteq LSL32_MASK \/ inv \subseteq LSL48_MASK
        \/ /\ val \subseteq make_bitmask(32)
           /\ LSL0_MASK \subseteq val \/ LSL16_MASK \subseteq val
        \/ is_valid_immediate_mask(val, bytes)

(***************************************************************************)
(* UML instructions.  An instruction is a record: op, size, cond, flags    *)
(* (the set of UML flag bits it is asked to produce) and its parameters p. *)
(***************************************************************************)
op_handle(g, inst) ==
    LET g1 == [g EXCEPT !.carry = POISON]
        g2 == Emit(g1, [op |-> "b", t |-> Local("skip")])
        g3 == Emit(g2, Bind("handle"))
        g4 == Emit(g3, [op |-> "stp_fp_lr"])
    IN  Emit(g4, Bind("skip"))

op_hash(g, inst) == Emit([g EXCEPT !.carry = POISON], Bind("hash"))

op_label(g, inst) == Emit([g EXCEPT !.carry = POISON], Bind("label"))

op_nop(g, inst) == g

op_exit(g, inst) ==
    LET retp == inst.p[1]
        g1 == emit_skip(g, inst.cond)
        g2 == mov_reg_param(g1, 4, XReg(REG_PARAM1), retp)
        g3 == Emit(g2, [op |-> "b", t |-> Far("exit", "m_exit")])
    IN  bind_skip(g3, inst.cond)

op_jmp(g, inst) ==
    LET jmptarget == Far("jump", inst.p[1].id)
        tbnzrange == inst.near
        cond == inst.cond
    IN  IF cond = COND_ALWAYS THEN Emit(g, [op |-> "b", t |-> jmptarget])
        ELSE IF cond \in {"U", "NU"}
        THEN IF tbnzrange
             THEN Emit(g, [op |-> IF cond = "U" THEN "tbnz" ELSE "tbz",
                           n |-> XReg(FLAGS_REG), bit |-> FLAG_BIT_U, t |-> jmptarget])
             ELSE Emit(get_unordered(g, XReg(SCRATCH_REG1)),
                       [op |-> IF cond = "U" THEN "cbnz" ELSE "cbz",
                        n |-> XReg(SCRATCH_REG1), t |-> jmptarget])
        ELSE IF cond \in {"C", "NC"}
        THEN CASE g.carry = CANONICAL ->
                    Emit(g, [op |-> "bcond", c |-> ARM_NOT_CONDITION(cond), t |-> jmptarget])
               [] g.carry = LOGICAL ->
                    Emit(g, [op |-> "bcond", c |-> ARM_CONDITION(cond), t |-> jmptarget])
               [] OTHER ->
                    IF tbnzrange
                    THEN Emit(g, [op |-> IF cond = "C" THEN "tbnz" ELSE "tbz",
                                  n |-> XReg(FLAGS_REG), bit |-> FLAG_BIT_C,
                                  t |-> jmptarget])
                    ELSE Emit(get_carry(g, XReg(SCRATCH_REG1), FALSE),
                              [op |-> IF cond = "C" THEN "cbnz" ELSE "cbz",
                               n |-> XReg(SCRATCH_REG1), t |-> jmptarget])
        ELSE LET g1 == IF cond \in {"A", "BE"} THEN load_carry(g, TRUE) ELSE g
             IN  Emit(g1, [op |-> "bcond", c |-> ARM_CONDITION(cond), t |-> jmptarget])

\* a call of a handle: direct if its code exists already, else through the
\* handle's code pointer
call_target_of_old_pointer(g, inst, handp) ==
    IF inst.bound THEN Emit(g, [op |-> "bl", t |-> Far("call", handp.id)])
    ELSE Emit(Emit(g, Mov(XReg(SCRATCH_REG1), Imm({}))),
              [op |-> "blr", n |-> XReg(SCRATCH_REG1)])
call_target(g, inst, handp) ==
    IF inst.bound THEN Emit(g, [op |-> "bl", t |-> Far("call", handp.id)])
    ELSE Emit(emit_ldr_mem(g, XReg(SCRATCH_REG1), <<"codeptr", handp.id>>),
              [op |-> "blr", n |-> XReg(SCRATCH_REG1)])
call_handle(g, inst) == call_target(g, inst, inst.p[1])

\* a load of a word of a table of the host
LoadAt(d, n, m) == [op |-> "ldr_at", d |-> d, n |-> n, m |-> m]
Indexed(r) == [k |-> "r", n |-> r.n, w |-> 8, lsl |-> 3]

\* the walk of the level-one and level-two tables with the pc in a register
hash_walk(g, pc) ==
    LET g1 == Emit(g, Bitfield("ubfx", XReg(TEMP_REG3), pc,
                               HashGeometry.l1shift, HashGeometry.l1bits))
        g2 == Emit(g1, LoadAt(XReg(TEMP_REG3), XReg(TEMP_REG1), Indexed(XReg(TEMP_REG3))))
        g3 == Emit(g2, Bitfield("ubfx", XReg(TEMP_REG2), pc,
                                HashGeometry.l2shift, HashGeometry.l2bits))
    IN  Emit(g3, LoadAt(XReg(TEMP_REG1), XReg(TEMP_REG3), Indexed(XReg(TEMP_REG2))))

\* the load of one table entry at a constant index
hash_entry(g, val) ==
    IF is_valid_immediate(FromNat(val), 15)
    THEN Emit(g, LoadAt(XReg(TEMP_REG1), XReg(TEMP_REG1), Imm(FromNat(val))))
    ELSE Emit(Emit(g, Mov(XReg(SCRATCH_REG1), Imm(FromNat(val \div 8)))),
              LoadAt(XReg(TEMP_REG1), XReg(TEMP_REG1), Indexed(XReg(SCRATCH_REG1))))

\* inst.populated: the mode had a level-one table of its own when the code
\* was generated
hash_lookup(g, inst, modep, pcp) ==
    IF is_immediate(modep) /\ inst.populated
    THEN IF is_immediate(pcp)
         THEN emit_ldr_mem(g, XReg(TEMP_REG1),
                           <<"hash.l2", HashSlot(ToNat(modep.v), pcp.v)>>)
         ELSE LET g1 == mov_reg_param(g, 4, XReg(TEMP_REG2), pcp)
                  g2 == get_imm_relative(g1, XReg(TEMP_REG1), L1TableAddr(ToNat(modep.v)))
              IN  hash_walk(g2, XReg(TEMP_REG2))
    ELSE LET g1 == get_imm_relative(g, XReg(TEMP_REG2), HashBaseAddr)
             mode == param_select_register(modep, XReg(TEMP_REG1), 8)
             g2 == IF is_immediate(modep)
                   THEN Emit(g1, LoadAt(XReg(TEMP_REG1), XReg(TEMP_REG2),
                                        Imm(FromNat(ToNat(modep.v) * 8))))
                   ELSE Emit(mov_reg_param(g1, 4, mode, modep),
                             LoadAt(XReg(TEMP_REG1), XReg(TEMP_REG2), Indexed(mode)))
             pc == param_select_register(pcp, XReg(TEMP_REG2), 8)
         IN  IF is_immediate(pcp)
             THEN hash_entry(hash_entry(g2, hash_l1val(pcp.v) * 8), hash_l2val(pcp.v) * 8)
             ELSE hash_walk(mov_reg_param(g2, 4, pc, pcp), pc)

op_hashjmp(g, inst) ==
    LET modep == inst.p[1]
        pcp == inst.p[2]
        exp == inst.p[3]
        g1 == Emit(g, [op |-> "mov_sp_fp"])
        g2 == hash_lookup(g1, inst, modep, pcp)
        g3 == Emit(g2, [op |-> "adr", d |-> XReg(REG_PARAM1), l |-> "lab"])
        g4 == Emit(g3, [op |-> "br", n |-> XReg(TEMP_REG1)])
        g5 == Emit(g4, Bind("lab"))
        g6 == mov_mem_param(g5, 4, <<"m_state.exp", 0>>, pcp)
        g7 == call_target(g6, inst, exp)
    IN  [g7 EXCEPT !.carry = POISON]

op_exh(g, inst) ==
    LET exp == inst.p[2]
        g1 == emit_skip(g, inst.cond)
        g2 == mov_mem_param(g1, 4, <<"m_state.exp", 0>>, exp)
        g3 == call_handle(g2, inst)
        g4 == bind_skip(g3, inst.cond)
    IN  [g4 EXCEPT !.carry = POISON]

op_callh(g, inst) ==
    LET g1 == emit_skip(g, inst.cond)
        g2 == call_handle(g1, inst)
        g3 == bind_skip(g2, inst.cond)
    IN  [g3 EXCEPT !.carry = POISON]

op_ret_without_pop(g, inst) ==
    bind_skip(Emit(emit_skip(g, inst.cond), [op |-> "ret"]), inst.cond)
op_ret(g, inst) ==
    LET g1 == emit_skip(g, inst.cond)
        g2 == Emit(g1, [op |-> "ldp_fp_lr"])
        g3 == Emit(g2, [op |-> "ret"])
    IN  bind_skip(g3, inst.cond)

op_callc_keeps_carry(g, inst) ==
    LET g1 == emit_skip(g, inst.cond)
        g2 == emit_str_mem(g1, WReg(FLAGS_REG), <<"m_near.emulated_flags", 0>>)
        g3 == Emit(g2, [op |-> "hostcall", arg |-> inst.p[2].a])
        g4 == emit_ldr_mem(g3, WReg(FLAGS_REG), <<"m_near.emulated_flags", 0>>)
    IN  bind_skip(g4, inst.cond)

op_callc(g, inst) ==
    LET g1 == emit_skip(g, inst.cond)
        g2 == emit_str_mem(g1, WReg(FLAGS_REG), <<"m_near.emulated_flags", 0>>)
        g3 == Emit(g2, [op |-> "hostcall", arg |-> inst.p[2].a])
        g4 == emit_ldr_mem(g3, WReg(FLAGS_REG), <<"m_near.emulated_flags", 0>>)
        g5 == bind_skip(g4, inst.cond)
    IN  [g5 EXCEPT !.carry = POISON]

\* a call of a function of the host: a direct branch-and-link if the function
\* is within range of the cache (inst.near), else through SCRATCH_REG1
HostAddress == {20}
call_arm_addr(g, inst) ==
    IF inst.near THEN Emit(g, [op |-> "hostfn"])
    ELSE Emit(get_imm_relative(g, XReg(SCRATCH_REG1), HostAddress), [op |-> "hostfn"])

op_break(g, inst) ==
    LET g1 == [g EXCEPT !.carry = POISON]
        g2 == get_imm_relative(g1, XReg(REG_PARAM1), HostAddress)
    IN  call_arm_addr(g2, inst)

\* inst.enabled: the machine's debug flags had DEBUG_FLAG_ENABLED when the
\* code was generated; at run time the hook is called if DEBUG_FLAG_CALL_HOOK
\* (bit 1 of the flags word) is set
op_debug(g, inst) ==
    IF inst.enabled
    THEN LET g1 == [g EXCEPT !.carry = POISON]
             temp == WReg(TEMP_REG1)
             pcp == inst.p[1]
             g2 == emit_ldr_mem(g1, temp, <<"debug_flags", 0>>)
             g3 == Emit(g2, [op |-> "tbz", n |-> temp, bit |-> 1, t |-> Local("skip")])
             g4 == get_imm_relative(g3, XReg(REG_PARAM1), HostAddress)
             g5 == mov_reg_param(g4, 4, XReg(REG_PARAM2), pcp)
             g6 == call_arm_addr(g5, inst)
         IN  Emit(g6, Bind("skip"))
    ELSE g

op_recover(g, inst) ==
    LET g1 == [g EXCEPT !.carry = POISON]
        dstp == inst.p[1]
        g2 == Emit(g1, [op |-> "ldr_frame_lr", d |-> XReg(REG_PARAM2)])
        g3 == get_imm_relative(g2, XReg(REG_PARAM1), HostAddress)
        g4 == Emit(g3, Mov(XReg(REG_PARAM3), Imm(inst.p[2].v)))
        g5 == Emit(g4, Op3("sub", XReg(REG_PARAM2), XReg(REG_PARAM2), Imm({2})))
        g6 == call_arm_addr(g5, inst)
    IN  mov_param_reg(g6, inst.size, dstp, XReg(REG_PARAM1))

\* the accessors of an address space (inst.acc): whether the space has a
\* specific accessor for the side used, its native width, and how the global
\* address mask and the dispatch table are applied
HostLoad(d) == [op |-> "ldr_host", d |-> d]
\* the index of a table of pointers: a register shifted left by three
EntryIndex(n) == [k |-> "r", n |-> n, w |-> 8, lsl |-> 3]
\* a setup that passes the address as it is and takes the first entry
emit_memaccess_setup_unmasked(g, addrp, accessors) ==
    Emit(get_imm_relative(mov_reg_param(g, 4, XReg(REG_PARAM2), addrp), XReg(8), DispatchTable),
         LoadAt(XReg(REG_PARAM1), XReg(8), Imm({})))
\* an instruction emitted under a condition of the generator
EmitIf(cond, g, i) == IF cond THEN Emit(g, i) ELSE g
\* the masked address into REG_PARAM2 and the dispatch entry into REG_PARAM1,
\* in the order of the source: the table index extracted, the address
\* masked, the entry loaded, and for a mask with holes in the index bits the
\* index taken from the masked address; then the displacement added
memaccess_entry(g, accessors, addrreg, index) ==
    EmitIf(accessors.displacement # {},
      EmitIf(accessors.mask_high_bits,
        EmitIf(accessors.mask_high_bits,
          EmitIf(~accessors.no_mask /\ ~accessors.mask_simple,
            EmitIf(accessors.high_bits # 0 /\ ~accessors.mask_high_bits,
              EmitIf(accessors.high_bits = 0,
                EmitIf(~accessors.mask_simple /\ ~accessors.no_mask,
                  EmitIf(accessors.mask_simple,
                    EmitIf(accessors.high_bits # 0 /\ ~accessors.mask_high_bits, g,
                      Bitfield("ubfx", WReg(index), WReg(addrreg.n),
                               accessors.low_bits, accessors.high_bits)),
                    Op3("and", WReg(REG_PARAM2), WReg(addrreg.n),
                        Imm(accessors.address_mask))),
                  Mov(WReg(REG_PARAM2), Imm(accessors.address_mask))),
                LoadAt(XReg(REG_PARAM1), XReg(8), Imm({}))),
              LoadAt(XReg(REG_PARAM1), XReg(8), EntryIndex(index))),
            Op3("and", WReg(REG_PARAM2), WReg(REG_PARAM2), WReg(addrreg.n))),
          Op3("lsr", WReg(index), WReg(REG_PARAM2), Imm(FromNat(accessors.low_bits)))),
        LoadAt(XReg(REG_PARAM1), XReg(8), EntryIndex(index))),
      Op3("add", XReg(REG_PARAM1), XReg(REG_PARAM1), Imm(accessors.displacement)))
memaccess_from(g, addrp, accessors, addrreg) ==
    memaccess_entry(get_imm_relative(mov_reg_param(g, 4, addrreg, addrp), XReg(8),
                                     DispatchTable),
                    accessors, addrreg, 7)
emit_memaccess_setup(g, addrp, accessors) ==
    memaccess_from(g, addrp, accessors,
                   IF accessors.no_mask \/ accessors.mask_simple
                   THEN XReg(REG_PARAM2) ELSE XReg(6))

\* the shift count for the data and the mask of a narrow write, in w7
narrow_shift_count(g, addrreg, accessors, shiftmask) ==
    LET shift == accessors.addr_shift - 3
        smallshift == shift <= 0 /\ shift >= -3
        moved(r) == IF shift < 0
                    THEN Op3("lsl", r, WReg(addrreg.n), Imm(FromNat(-shift)))
                    ELSE Op3("lsr", r, WReg(addrreg.n), Imm(FromNat(shift)))
    IN  IF accessors.big_endian
        THEN LET g1 == IF ~smallshift THEN Emit(g, moved(WReg(6))) ELSE g
                 g2 == Emit(g1, Mov(WReg(7), Imm(shiftmask)))
             IN  IF smallshift
                 THEN Emit(g2, Op3("bic", WReg(7), WReg(7),
                                   [k |-> "r", n |-> addrreg.n, w |-> 4, lsl |-> -shift]))
                 ELSE Emit(g2, Op3("bic", WReg(7), WReg(7), WReg(6)))
        ELSE IF shift = 0
        THEN Emit(g, Op3("and", WReg(7), WReg(addrreg.n), Imm(shiftmask)))
        ELSE Emit(Emit(g, moved(WReg(7))), Op3("and", WReg(7), WReg(7), Imm(shiftmask)))

narrow_shifted(g, inst, accessors) ==
    IF accessors.is_virtual
    THEN Emit(Emit(Emit(g, HostLoad(XReg(8))), HostLoad(XReg(8))), [op |-> "hostfn"])
    ELSE call_arm_addr(g, inst)
narrow_from(g, inst, addrp, spacesizep, accessors, addrreg) ==
    narrow_shifted(
        Emit(Emit(memaccess_entry(
                      narrow_shift_count(
                          get_imm_relative(mov_reg_param(g, 4, addrreg, addrp), XReg(8),
                                           DispatchTable),
                          addrreg, accessors,
                          FromNat((accessors.native_bytes - spacesizep.bytes) * 8)),
                      accessors, addrreg, 6),
                  Op3("lsl", XReg(REG_PARAM3), XReg(REG_PARAM3), XReg(7))),
             Op3("lsl", XReg(REG_PARAM4), XReg(REG_PARAM4), XReg(7))),
        inst, accessors)
emit_narrow_memwrite(g, inst, addrp, spacesizep, accessors) ==
    narrow_from(g, inst, addrp, spacesizep, accessors,
                IF accessors.no_mask \/ accessors.mask_simple
                THEN XReg(REG_PARAM2) ELSE XReg(5))

\* the call of a specific accessor: through the table of virtual member
\* functions of the dispatch entry, or straight to the function
call_specific(g, inst, accessors, maskreg) ==
    LET g1 == IF accessors.is_virtual
              THEN Emit(Emit(g, HostLoad(XReg(8))), HostLoad(XReg(8)))
              ELSE g
        g2 == Emit(g1, Mov(maskreg, Imm(make_bitmask(8 * accessors.native_bytes))))
    IN  IF accessors.is_virtual THEN Emit(g2, [op |-> "hostfn"])
        ELSE call_arm_addr(g2, inst)

call_resolved(g, inst) ==
    call_arm_addr(get_imm_relative(g, XReg(REG_PARAM1), HostAddress), inst)

op_read(g, inst) ==
    LET g1 == [g EXCEPT !.carry = POISON]
        dstp == inst.p[1]
        addrp == inst.p[2]
        spacesizep == inst.p[3]
        accessors == inst.acc
        g2 == IF accessors.have_specific /\ spacesizep.bytes = accessors.native_bytes
              THEN call_specific(emit_memaccess_setup(g1, addrp, accessors),
                                 inst, accessors, XReg(REG_PARAM3))
              ELSE call_resolved(mov_reg_param(g1, 4, XReg(REG_PARAM2), addrp), inst)
    IN  mov_param_reg(g2, inst.size, dstp, XReg(REG_PARAM1))

op_readm(g, inst) ==
    LET g1 == [g EXCEPT !.carry = POISON]
        dstp == inst.p[1]
        addrp == inst.p[2]
        maskp == inst.p[3]
        spacesizep == inst.p[4]
        accessors == inst.acc
        g2 == IF accessors.have_specific /\ spacesizep.bytes = accessors.native_bytes
              THEN LET g3 == emit_memaccess_setup(g1, addrp, accessors)
                       g4 == mov_reg_param(g3, inst.size, XReg(REG_PARAM3), maskp)
                       g5 == IF accessors.is_virtual
                             THEN Emit(Emit(g4, HostLoad(XReg(8))), HostLoad(XReg(8)))
                             ELSE g4
                   IN  IF accessors.is_virtual THEN Emit(g5, [op |-> "hostfn"])
                       ELSE call_arm_addr(g5, inst)
              ELSE call_resolved(
                       mov_reg_param(mov_reg_param(g1, 4, XReg(REG_PARAM2), addrp),
                                     inst.size, XReg(REG_PARAM3), maskp), inst)
    IN  mov_param_reg(g2, inst.size, dstp, XReg(REG_PARAM1))

op_write(g, inst) ==
    LET g1 == [g EXCEPT !.carry = POISON]
        addrp == inst.p[1]
        srcp == inst.p[2]
        spacesizep == inst.p[3]
        accessors == inst.acc
    IN  IF accessors.have_specific /\ spacesizep.bytes = accessors.native_bytes
        THEN call_specific(
                 mov_reg_param(emit_memaccess_setup(g1, addrp, accessors),
                               inst.size, XReg(REG_PARAM3), srcp),
                 inst, accessors, XReg(REG_PARAM4))
        ELSE IF accessors.have_specific /\ spacesizep.bytes < accessors.native_bytes
        THEN LET g2 == mov_reg_param(g1, inst.size, XReg(REG_PARAM3), srcp)
                 g3 == Emit(g2, Mov(XReg(REG_PARAM4),
                                    Imm(make_bitmask(8 * spacesizep.bytes))))
             IN  emit_narrow_memwrite(g3, inst, addrp, spacesizep, accessors)
        ELSE call_resolved(
                 mov_reg_param(mov_reg_param(g1, 4, XReg(REG_PARAM2), addrp),
                               inst.size, XReg(REG_PARAM3), srcp), inst)

op_writem(g, inst) ==
    LET g1 == [g EXCEPT !.carry = POISON]
        addrp == inst.p[1]
        srcp == inst.p[2]
        maskp == inst.p[3]
        spacesizep == inst.p[4]
        accessors == inst.acc
    IN  IF accessors.have_specific /\ spacesizep.bytes = accessors.native_bytes
        THEN LET g2 == emit_memaccess_setup(g1, addrp, accessors)
                 g3 == mov_reg_param(g2, inst.size, XReg(REG_PARAM3), srcp)
                 g4 == IF accessors.is_virtual
                       THEN Emit(Emit(g3, HostLoad(XReg(8))), HostLoad(XReg(8)))
                       ELSE g3
                 g5 == mov_reg_param(g4, inst.size, XReg(REG_PARAM4), maskp)
             IN  IF accessors.is_virtual THEN Emit(g5, [op |-> "hostfn"])
                 ELSE call_arm_addr(g5, inst)
        ELSE IF accessors.have_specific /\ spacesizep.bytes < accessors.native_bytes
        THEN LET g2 == mov_reg_param(g1, inst.size, XReg(REG_PARAM3), srcp)
                 g3 == mov_reg_param(g2, inst.size, XReg(REG_PARAM4), maskp)
             IN  emit_narrow_memwrite(g3, inst, addrp, spacesizep, accessors)
        ELSE call_resolved(
                 mov_reg_param(
                     mov_reg_param(mov_reg_param(g1, 4, XReg(REG_PARAM2), addrp),
                                   inst.size, XReg(REG_PARAM3), srcp),
                     inst.size, XReg(REG_PARAM4), maskp), inst)

mov_float_param_int_reg(g, regsize, dst, src) ==
    IF is_memory(dst) THEN emit_str_mem(g, src, dst.a)
    ELSE IF is_float_register(dst)
    THEN Emit(g, [op |-> "fmov_from_gp", d |-> get_register_float(dst, regsize), n |-> src])
    ELSE g

op_fread(g, inst) ==
    LET g1 == [g EXCEPT !.carry = POISON]
        dstp == inst.p[1]
        addrp == inst.p[2]
        g2 == mov_reg_param(g1, 4, XReg(REG_PARAM2), addrp)
        g3 == call_resolved(g2, inst)
    IN  mov_float_param_int_reg(g3, inst.size, dstp,
                                select_register(XReg(REG_PARAM1), inst.size))

op_fwrite(g, inst) ==
    LET g1 == [g EXCEPT !.carry = POISON]
        addrp == inst.p[1]
        srcp == inst.p[2]
        g2 == mov_reg_param(g1, 4, XReg(REG_PARAM2), addrp)
        g3 == mov_float_reg_param(g2, inst.size, XReg(TEMPF_REG1), srcp)
        g4 == Emit(g3, [op |-> "fmov_to_gp",
                        d |-> select_register(XReg(REG_PARAM3), inst.size),
                        n |-> select_register(XReg(TEMPF_REG1), inst.size)])
    IN  call_resolved(g4, inst)

op_setfmod(g, inst) ==
    LET srcp == inst.p[1]
        scratch == select_register(XReg(FUNC_SCRATCH_REG), inst.size)
        src == param_select_register(srcp, XReg(FUNC_SCRATCH_REG), inst.size)
        g1 == IF is_immediate(srcp) THEN Emit(g, Mov(scratch, Imm(Trunc(srcp.v, 2))))
              ELSE Emit(mov_reg_param(g, inst.size, src, srcp),
                        Op3("and", scratch, src, Imm({0, 1})))
    IN  emit_strb_mem(g1, select_register(scratch, 4), <<"m_state.fmod", 0>>)

op_getfmod(g, inst) ==
    LET dstp == inst.p[1]
        dst == param_select_register(dstp, XReg(TEMP_REG1), inst.size)
    IN  mov_param_reg(emit_ldrb_mem(g, select_register(dst, 4), <<"m_state.fmod", 0>>),
                      inst.size, dstp, dst)

op_getexp(g, inst) ==
    LET dstp == inst.p[1]
        dst == param_select_register(dstp, XReg(TEMP_REG1), inst.size)
    IN  mov_param_reg(emit_ldr_mem(g, select_register(dst, 4), <<"m_state.exp", 0>>),
                      inst.size, dstp, dst)

\* one flag of GETFLGS that is read from the native condition codes
getflgs_native(g, dst, first, cc, bit) ==
    IF first
    THEN Emit(Emit(g, Cset(dst, cc)), Op3("lsl", dst, dst, Imm(FromNat(bit))))
    ELSE Emit(Emit(g, Cset(XReg(SCRATCH_REG1), cc)),
              Op3("orr", dst, dst, [k |-> "r", n |-> SCRATCH_REG1, w |-> 8, lsl |-> bit]))

op_getflgs(g, inst) ==
    LET dstp == inst.p[1]
        mask == inst.p[2].v
        dst == param_select_register(dstp, XReg(TEMP_REG1), 8)
        g1 == IF FLAG_BIT_C \in mask
              THEN Emit(g, Op3("and", dst, XReg(FLAGS_REG), Imm(FLAG_C))) ELSE g
        f1 == FLAG_BIT_C \notin mask
        g2 == IF FLAG_BIT_V \in mask THEN getflgs_native(g1, dst, f1, "VS", FLAG_BIT_V) ELSE g1
        f2 == f1 /\ FLAG_BIT_V \notin mask
        g3 == IF FLAG_BIT_Z \in mask THEN getflgs_native(g2, dst, f2, "EQ", FLAG_BIT_Z) ELSE g2
        f3 == f2 /\ FLAG_BIT_Z \notin mask
        g4 == IF FLAG_BIT_S \in mask THEN getflgs_native(g3, dst, f3, "MI", FLAG_BIT_S) ELSE g3
        f4 == f3 /\ FLAG_BIT_S \notin mask
        g5 == IF FLAG_BIT_U \notin mask THEN g4
              ELSE IF f4 THEN Emit(g4, Op3("and", dst, XReg(FLAGS_REG), Imm(FLAG_U)))
              ELSE Emit(Emit(g4, Op3("and", XReg(SCRATCH_REG1), XReg(FLAGS_REG), Imm(FLAG_U))),
                        Op3("orr", dst, dst, XReg(SCRATCH_REG1)))
        f5 == f4 /\ FLAG_BIT_U \notin mask
        g6 == IF f5 THEN Emit(g5, Mov(dst, XReg(zr))) ELSE g5
    IN  mov_param_reg(g6, inst.size, dstp, dst)

op_setflgs(g, inst) ==
    set_flags(mov_reg_param(g, inst.size, XReg(FLAGS_REG), inst.p[1]))

\* the fields of a drcuml_machine_state at a memory parameter
StateField(base, field, i) == <<field, 8 * base[2] + i>>

RECURSIVE save_int_registers(_, _, _)
save_int_registers(g, base, regnum) ==
    IF regnum = REG_I_COUNT THEN g
    ELSE save_int_registers(
             Emit(g, [op |-> "str", s |-> XReg(int_register_map(regnum)),
                      addr |-> StateField(base, "state.r", regnum), sz |-> 8]),
             base, regnum + 1)

RECURSIVE save_float_registers(_, _, _)
save_float_registers(g, base, regnum) ==
    IF regnum = REG_F_COUNT THEN g
    ELSE save_float_registers(
             Emit(g, [op |-> "strf", s |-> XReg(float_register_map(regnum)),
                      addr |-> StateField(base, "state.f", regnum)]),
             base, regnum + 1)

\* a SAVE that takes the carry from the native condition codes
op_save_native_carry(g, inst) ==
    LET base == inst.p[1].a
        g1 == Emit(g, [op |-> "mrs", d |-> XReg(TEMP_REG1)])
        g2 == Emit(g1, Op3("lsr", XReg(TEMP_REG1), XReg(TEMP_REG1), Imm(FromNat(28))))
        g3 == Emit(g2, Op3("and", XReg(TEMP_REG2), XReg(TEMP_REG1), Imm(FLAG_Z \cup FLAG_S)))
        g4 == Emit(g3, Op3("and", XReg(TEMP_REG3), XReg(FLAGS_REG), Imm(FLAG_U)))
        g5 == Emit(g4, Op3("orr", XReg(TEMP_REG2), XReg(TEMP_REG2), XReg(TEMP_REG3)))
        g6 == Emit(g5, Bitfield("bfi", XReg(TEMP_REG2), XReg(TEMP_REG1), FLAG_BIT_V, 1))
        g7 == Emit(g6, Bitfield("ubfx", XReg(TEMP_REG3), XReg(TEMP_REG1), 1, 1))
        g8 == Emit(g7, Bitfield("bfi", XReg(TEMP_REG2), XReg(TEMP_REG3), FLAG_BIT_C, 1))
        g9 == emit_strb_mem(g8, WReg(TEMP_REG2), StateField(base, "state.flags", 0))
        g10 == emit_ldrb_mem(g9, WReg(TEMP_REG1), <<"m_state.fmod", 0>>)
        g11 == emit_strb_mem(g10, WReg(TEMP_REG1), StateField(base, "state.fmod", 0))
        g12 == emit_ldr_mem(g11, WReg(TEMP_REG1), <<"m_state.exp", 0>>)
        g13 == emit_str_mem(g12, WReg(TEMP_REG1), StateField(base, "state.exp", 0))
    IN  save_float_registers(save_int_registers(g13, base, 0), base, 0)

op_save(g, inst) ==
    LET base == inst.p[1].a
        g1 == Emit(g, [op |-> "mrs", d |-> XReg(TEMP_REG1)])
        g2 == Emit(g1, Op3("lsr", XReg(TEMP_REG1), XReg(TEMP_REG1), Imm(FromNat(28))))
        g3 == Emit(g2, Op3("and", XReg(TEMP_REG2), XReg(TEMP_REG1), Imm(FLAG_Z \cup FLAG_S)))
        g4 == Emit(g3, Op3("orr", XReg(TEMP_REG2), XReg(TEMP_REG2), XReg(FLAGS_REG)))
        g5 == Emit(g4, Bitfield("bfi", XReg(TEMP_REG2), XReg(TEMP_REG1), FLAG_BIT_V, 1))
        g6 == emit_strb_mem(g5, WReg(TEMP_REG2), StateField(base, "state.flags", 0))
        g7 == emit_ldrb_mem(g6, WReg(TEMP_REG1), <<"m_state.fmod", 0>>)
        g8 == emit_strb_mem(g7, WReg(TEMP_REG1), StateField(base, "state.fmod", 0))
        g9 == emit_ldr_mem(g8, WReg(TEMP_REG1), <<"m_state.exp", 0>>)
        g10 == emit_str_mem(g9, WReg(TEMP_REG1), StateField(base, "state.exp", 0))
    IN  save_float_registers(save_int_registers(g10, base, 0), base, 0)

RECURSIVE restore_int_registers(_, _, _)
restore_int_registers(g, base, regnum) ==
    IF regnum = REG_I_COUNT THEN g
    ELSE restore_int_registers(
             Emit(g, [op |-> "ldr", d |-> XReg(int_register_map(regnum)),
                      addr |-> StateField(base, "state.r", regnum), sz |-> 8]),
             base, regnum + 1)

RECURSIVE restore_float_registers(_, _, _)
restore_float_registers(g, base, regnum) ==
    IF regnum = REG_F_COUNT THEN g
    ELSE restore_float_registers(
             Emit(g, [op |-> "ldrf", d |-> XReg(float_register_map(regnum)),
                      addr |-> StateField(base, "state.f", regnum)]),
             base, regnum + 1)

op_restore(g, inst) ==
    LET base == inst.p[1].a
        g1 == restore_float_registers(restore_int_registers(g, base, 0), base, 0)
        g2 == emit_ldrb_mem(g1, WReg(TEMP_REG1), StateField(base, "state.fmod", 0))
        g3 == emit_strb_mem(g2, WReg(TEMP_REG1), <<"m_state.fmod", 0>>)
        g4 == emit_ldr_mem(g3, WReg(TEMP_REG1), StateField(base, "state.exp", 0))
        g5 == emit_str_mem(g4, WReg(TEMP_REG1), <<"m_state.exp", 0>>)
        g6 == emit_ldrb_mem(g5, WReg(FLAGS_REG), StateField(base, "state.flags", 0))
    IN  set_flags(g6)

op_carry(g, inst) ==
    LET srcp == inst.p[1]
        bitp == inst.p[2]
        bits == inst.size * 8
        src == param_select_register(srcp, XReg(TEMP_REG1), inst.size)
        scratch == select_register(XReg(FUNC_SCRATCH_REG), inst.size)
        g0 == [g EXCEPT !.carry = POISON]
    IN  IF is_immediate(srcp) /\ is_immediate(bitp)
        THEN store_carry_reg(
                 Emit(g0, Mov(scratch, Imm(Trunc(LsrBV(srcp.v, ToNat(Trunc(bitp.v, 6))), 1)))),
                 scratch)
        ELSE IF is_immediate(bitp)
        THEN LET shift == ToNat(Trunc(bitp.v, 30)) % bits
                 g1 == mov_reg_param(g0, inst.size, src, srcp)
             IN  IF shift # 0
                 THEN store_carry_reg(
                          Emit(g1, Op3("lsr", scratch, src, Imm(FromNat(shift)))), scratch)
                 ELSE store_carry_reg(g1, src)
        ELSE LET shift == param_select_register(bitp, XReg(TEMP_REG2), inst.size)
                 g1 == mov_reg_param(g0, inst.size, src, srcp)
                 g2 == mov_reg_param(g1, inst.size, shift, bitp)
                 g3 == Emit(g2, Op3("and", shift, shift, Imm(FromNat(bits - 1))))
                 g4 == Emit(g3, Op3("lsr", scratch, src, shift))
             IN  store_carry_reg(g4, scratch)

op_set(g, inst) ==
    LET dstp == inst.p[1]
        cond == inst.cond
        dst == param_select_register(dstp, XReg(TEMP_REG1), inst.size)
        g1 == IF cond \in {"U", "NU"}
              THEN LET u == get_unordered(g, dst)
                   IN  IF cond = "NU" THEN Emit(u, Op3("eor", dst, dst, Imm({0}))) ELSE u
              ELSE IF cond \in {"C", "NC"}
              THEN CASE g.carry = CANONICAL -> Emit(g, Cset(dst, ARM_NOT_CONDITION(cond)))
                     [] g.carry = LOGICAL -> Emit(g, Cset(dst, ARM_CONDITION(cond)))
                     [] OTHER ->
                          LET c == get_carry(g, dst, FALSE)
                          IN  IF cond = "NC" THEN Emit(c, Op3("eor", dst, dst, Imm({0})))
                              ELSE c
              ELSE Emit(IF cond \in {"A", "BE"} THEN load_carry(g, TRUE) ELSE g,
                        Cset(dst, ARM_CONDITION(cond)))
    IN  IF cond = COND_ALWAYS THEN mov_param_imm(g, inst.size, dstp, {0})
        ELSE mov_param_reg(g1, inst.size, dstp, dst)

\* the conditional select of a conditional MOV into a register
mov_select(g, inst, dst, src, srcone, srcnegone) ==
    LET cond == inst.cond
        sel(keep, take) ==
            IF srcone THEN [op |-> "csinc", d |-> dst, n |-> dst, m |-> select_register(src, 8), c |-> keep]
            ELSE IF srcnegone
            THEN [op |-> "csinv", d |-> dst, n |-> dst, m |-> select_register(src, 8), c |-> keep]
            ELSE [op |-> "csel", d |-> dst, n |-> select_register(src, 8), m |-> dst, c |-> take]
    IN  IF cond \in {"C", "NC"}
        THEN IF g.carry = CANONICAL
             THEN Emit(g, sel(ARM_CONDITION(cond), ARM_NOT_CONDITION(cond)))
             ELSE Emit(g, sel(ARM_NOT_CONDITION(cond), ARM_CONDITION(cond)))
        ELSE Emit(IF cond \in {"A", "BE"} THEN load_carry(g, TRUE) ELSE g,
                  sel(ARM_NOT_CONDITION(cond), ARM_CONDITION(cond)))

op_mov(g, inst) ==
    LET dstp == inst.p[1]
        srcp == inst.p[2]
        cond == inst.cond
        usesel == /\ is_int_register(dstp)
                  /\ \/ inst.size = 8 /\ is_int_register(srcp)
                     \/ is_immediate(srcp) /\ is_simple_mov_immediate(srcp.v, inst.size)
                  /\ cond \notin {COND_ALWAYS, "U", "NU"}
                  /\ cond \in {"C", "NC"} => g.carry \in {CANONICAL, LOGICAL}
        srczero == is_immediate_value(srcp, {})
        srcone == is_immediate_value(srcp, {0})
        srcnegone == inst.size = 8 /\ is_immediate_value(srcp, BV_ONES64)
        srcspecial == srczero \/ srcone \/ srcnegone
        dst == param_select_register(dstp, XReg(TEMP_REG1), 8)
        src == IF srcspecial THEN XReg(zr)
               ELSE param_select_register(srcp, XReg(TEMP_REG2), inst.size)
        g1 == mov_reg_param(g, inst.size, dst, dstp)
        g2 == IF srcspecial THEN g1 ELSE mov_reg_param(g1, inst.size, src, srcp)
        g3 == mov_select(g2, inst, dst, src, srcone, srcnegone)
    IN  IF usesel THEN mov_param_reg(g3, inst.size, dstp, dst)
        ELSE bind_skip(mov_param_param(emit_skip(g, cond), inst.size, dstp, srcp), cond)

(***************************************************************************)
(* ADD, ADDC, SUB, SUBB, CMP                                               *)
(***************************************************************************)
Lo12(v) == v \cap make_bitmask(12)
Hi12(v) == v \cap (12 .. 23)

\* load the one non-constant source and emit opcode output, src, operand
addsub_one_source(g, inst, opcode, output, srcp, operand) ==
    LET src == param_select_register(srcp, output, inst.size)
        g1 == mov_reg_param(g, inst.size, src, srcp)
        g2 == Emit(g1, Op3(opcode, output, src, operand))
    IN  mov_param_reg(g2, inst.size, inst.p[1], output)

\* the same with the constant split into its low and high twelve bits
addsub_split(g, inst, opcode, output, srcp, imm) ==
    LET src == param_select_register(srcp, output, inst.size)
        g1 == mov_reg_param(g, inst.size, src, srcp)
        g2 == Emit(g1, Op3(opcode, output, src, Imm(Lo12(imm))))
        g3 == Emit(g2, Op3(opcode, output, output, Imm(Hi12(imm))))
    IN  mov_param_reg(g3, inst.size, inst.p[1], output)

\* zero plus a constant
add_to_zero(g, inst, opcode, output, zero, imm) ==
    IF is_valid_immediate_addsub(imm)
    THEN mov_param_reg(
             Emit(Emit(g, Mov(output, zero)), Op3(opcode, output, output, Imm(imm))),
             inst.size, inst.p[1], output)
    ELSE mov_param_reg(
             Emit(Emit(g, Mov(output, Imm(Lo12(imm)))),
                  Op3(opcode, output, output, Imm(Hi12(imm)))),
             inst.size, inst.p[1], output)

addsub_general(g, inst, opcode, output) ==
    LET src1p == inst.p[2]
        src2p == inst.p[3]
        src1 == param_select_register(src1p, XReg(TEMP_REG1), inst.size)
        src2 == param_select_register(src2p, XReg(TEMP_REG2), inst.size)
        g1 == mov_reg_param(g, inst.size, src1, src1p)
        g2 == mov_reg_param(g1, inst.size, src2, src2p)
        g3 == Emit(g2, Op3(opcode, output, src1, src2))
    IN  mov_param_reg(g3, inst.size, inst.p[1], output)

op_add(g, inst) ==
    LET CarryIn == inst.op = "ADDC"
        hasflags == inst.flags # {}
        opcode == IF CarryIn THEN (IF hasflags THEN "adcs" ELSE "adc")
                  ELSE (IF hasflags THEN "adds" ELSE "add")
        dstp == inst.p[1]
        src1p == inst.p[2]
        src2p == inst.p[3]
        zero == select_register(XReg(zr), inst.size)
        output == param_select_register(dstp, XReg(TEMP_REG3), inst.size)
        g0 == IF CarryIn THEN load_carry(g, FALSE) ELSE g
        g1 ==
          IF is_immediate_value(src1p, {})
          THEN IF is_immediate_value(src2p, {})
               THEN IF CarryIn
                    THEN mov_param_reg(Emit(g0, Op3(opcode, output, zero, zero)),
                                       inst.size, dstp, output)
                    ELSE Emit(mov_param_reg(g0, inst.size, dstp, zero),
                              Op3(opcode, zero, zero, zero))
               ELSE IF ~CarryIn /\ is_immediate(src2p)
                       /\ (is_valid_immediate_addsub(src2p.v) \/ is_valid_immediate(src2p.v, 24))
               THEN add_to_zero(g0, inst, opcode, output, zero, src2p.v)
               ELSE addsub_one_source(g0, inst, opcode, output, src2p, zero)
          ELSE IF is_immediate_value(src2p, {})
          THEN IF ~CarryIn /\ is_immediate(src1p)
                  /\ (is_valid_immediate_addsub(src1p.v) \/ is_valid_immediate(src1p.v, 24))
               THEN add_to_zero(g0, inst, opcode, output, zero, src1p.v)
               ELSE addsub_one_source(g0, inst, opcode, output, src1p, zero)
          ELSE IF ~CarryIn /\ is_immediate(src1p) /\ is_valid_immediate_addsub(src1p.v)
          THEN addsub_one_source(g0, inst, opcode, output, src2p, Imm(src1p.v))
          ELSE IF ~CarryIn /\ is_immediate(src2p) /\ is_valid_immediate_addsub(src2p.v)
          THEN addsub_one_source(g0, inst, opcode, output, src1p, Imm(src2p.v))
          ELSE IF ~CarryIn /\ ~hasflags /\ is_immediate(src1p)
                  /\ is_valid_immediate(src1p.v, 24)
          THEN addsub_split(g0, inst, opcode, output, src2p, src1p.v)
          ELSE IF ~CarryIn /\ ~hasflags /\ is_immediate(src2p)
                  /\ is_valid_immediate(src2p.v, 24)
          THEN addsub_split(g0, inst, opcode, output, src1p, src2p.v)
          ELSE addsub_general(g0, inst, opcode, output)
    IN  IF hasflags THEN store_carry(g1, FALSE) ELSE g1

op_sub(g, inst) ==
    LET CarryIn == inst.op = "SUBB"
        hasflags == inst.flags # {}
        opcode == IF CarryIn THEN (IF hasflags THEN "sbcs" ELSE "sbc")
                  ELSE (IF hasflags THEN "subs" ELSE "sub")
        dstp == inst.p[1]
        src1p == inst.p[2]
        src2p == inst.p[3]
        g0 == IF CarryIn THEN load_carry(g, TRUE) ELSE g
        zero == select_register(XReg(zr), inst.size)
        output == param_select_register(dstp, XReg(TEMP_REG3), inst.size)
        src == param_select_register(src1p, output, inst.size)
        g1 ==
          IF is_immediate_value(src2p, {})
          THEN IF is_immediate_value(src1p, {})
               THEN IF CarryIn
                    THEN mov_param_reg(Emit(g0, Op3(opcode, output, zero, zero)),
                                       inst.size, dstp, output)
                    ELSE Emit(mov_param_reg(g0, inst.size, dstp, zero),
                              Op3(opcode, zero, zero, zero))
               ELSE IF CarryIn
               THEN addsub_one_source(g0, inst, opcode, output, src1p, zero)
               ELSE Emit(mov_param_reg(mov_reg_param(g0, inst.size, src, src1p),
                                       inst.size, dstp, src),
                         Op3(opcode, zero, src, zero))
          ELSE IF ~CarryIn /\ is_immediate(src2p) /\ is_valid_immediate_addsub(src2p.v)
          THEN addsub_one_source(g0, inst, opcode, output, src1p, Imm(src2p.v))
          ELSE IF ~CarryIn /\ (~hasflags \/ is_immediate_value(src1p, {}))
                  /\ is_immediate(src2p) /\ is_valid_immediate(src2p.v, 24)
          THEN addsub_split(g0, inst, opcode, output, src1p, src2p.v)
          ELSE addsub_general(g0, inst, opcode, output)
    IN  IF hasflags THEN store_carry(g1, TRUE) ELSE g1

op_cmp(g, inst) ==
    LET src1p == inst.p[1]
        src2p == inst.p[2]
        src1 == param_select_register(src1p, XReg(TEMP_REG1), inst.size)
        zero == select_register(XReg(zr), inst.size)
        g1 == mov_reg_param(g, inst.size, src1, src1p)
        g2 == IF is_immediate(src2p) /\ is_valid_immediate_addsub(src2p.v)
              THEN IF is_immediate_value(src2p, {})
                   THEN Emit(g1, Op3("subs", zero, src1, zero))
                   ELSE Emit(g1, Op3("subs", zero, src1, Imm(src2p.v)))
              ELSE LET src2 == param_select_register(src2p, XReg(TEMP_REG2), inst.size)
                   IN  Emit(mov_reg_param(g1, inst.size, src2, src2p),
                            Op3("subs", zero, src1, src2))
    IN  store_carry(g2, TRUE)

Tst(r) == [op |-> "ands", d |-> select_register(XReg(zr), r.w), n |-> r, m |-> r]

\* a division that does not look at its divisor
op_div_unchecked(g, inst) ==
    LET Opcode == IF inst.op = "DIVU" THEN "udiv" ELSE "sdiv"
        temp == select_register(XReg(TEMP_REG1), inst.size)
        temp2 == select_register(XReg(TEMP_REG2), inst.size)
        temp3 == select_register(XReg(TEMP_REG3), inst.size)
        g1 == mov_reg_param(g, inst.size, temp2, inst.p[4])
        g2 == mov_reg_param(g1, inst.size, temp, inst.p[3])
        g3 == Emit(g2, Op3(Opcode, temp3, temp, temp2))
        g4 == mov_param_reg(g3, inst.size, inst.p[1], temp3)
        g5 == IF inst.p[1] # inst.p[2]
              THEN mov_param_reg(
                       Emit(g4, [op |-> "msub", d |-> temp2, n |-> temp3,
                                 m |-> temp2, a |-> temp]),
                       inst.size, inst.p[2], temp2)
              ELSE g4
        done == IF inst.flags # {} THEN Emit(g5, Tst(temp3)) ELSE g5
    IN  [done EXCEPT !.carry = POISON]

\* DIVU and DIVS: a zero divisor only raises V
op_div(g, inst) ==
    LET Opcode == IF inst.op = "DIVU" THEN "udiv" ELSE "sdiv"
        dstp == inst.p[1]
        edstp == inst.p[2]
        src1p == inst.p[3]
        src2p == inst.p[4]
        compute_rem == dstp # edstp
        temp == select_register(XReg(TEMP_REG1), inst.size)
        temp2 == select_register(XReg(TEMP_REG2), inst.size)
        temp3 == select_register(XReg(TEMP_REG3), inst.size)
        set_overflow(h) ==
            Emit(Emit(h, Mov(XReg(SCRATCH_REG1), Imm({NZCV_V}))),
                 [op |-> "msr", n |-> XReg(SCRATCH_REG1)])
        g1 == mov_reg_param(g, inst.size, temp2, src2p)
        g2 == Emit(g1, [op |-> "cbz", n |-> temp2, t |-> Local("skip_zero")])
        g3 == mov_reg_param(g2, inst.size, temp, src1p)
        g4 == Emit(g3, Op3(Opcode, temp3, temp, temp2))
        g5 == mov_param_reg(g4, inst.size, dstp, temp3)
        g6 == IF compute_rem
              THEN mov_param_reg(
                       Emit(g5, [op |-> "msub", d |-> temp2, n |-> temp3,
                                 m |-> temp2, a |-> temp]),
                       inst.size, edstp, temp2)
              ELSE g5
        g7 == IF inst.flags # {} THEN Emit(g6, Tst(temp3)) ELSE g6
        g8 == Emit(g7, [op |-> "b", t |-> Local("skip")])
        g9 == set_overflow(Emit(g8, Bind("skip_zero")))
        done == IF ~is_immediate(src2p) \/ ~is_immediate_value(src2p, {})
                THEN Emit(g9, Bind("skip"))
                ELSE set_overflow(g)
    IN  [done EXCEPT !.carry = POISON]

\* whether the destination register may be written before the sources
\* have been used
can_use_dst_reg(dstp, src1p, src2p) ==
    /\ is_int_register(dstp)
    /\ is_int_register(src1p) => src1p.n # dstp.n
    /\ is_int_register(src2p) => src2p.n # dstp.n

\* SHL, SHR, SAR and ROR
op_shift(g, inst) ==
    LET Opcode == CASE inst.op = "SHL" -> "lsl" [] inst.op = "SHR" -> "lsr"
                    [] inst.op = "SAR" -> "asr" [] inst.op = "ROR" -> "ror"
        dstp == inst.p[1]
        src1p == inst.p[2]
        src2p == inst.p[3]
        maxBits == inst.size * 8 - 1
        src == param_select_register(src1p, XReg(TEMP_REG1), inst.size)
        shift == param_select_register(src2p, XReg(TEMP_REG2), inst.size)
        dst == IF can_use_dst_reg(dstp, src1p, src2p)
               THEN param_select_register(dstp, XReg(TEMP_REG3), inst.size)
               ELSE select_register(XReg(TEMP_REG3), inst.size)
        scratch == select_register(XReg(FUNC_SCRATCH_REG), inst.size)
        g1 == mov_reg_param(g, inst.size, src, src1p)
        g2 == IF is_immediate(src2p)
                 /\ is_valid_immediate(src2p.v, IF inst.size = 8 THEN 5 ELSE 4)
              THEN LET count == ToNat(src2p.v) % (inst.size * 8)
                       h == Emit(g1, Op3(Opcode, dst, src, Imm(FromNat(count))))
                   IN  IF Opcode \in {"ror", "lsr", "asr"}
                       THEN calculate_carry_shift_right_imm(h, src, count)
                       ELSE calculate_carry_shift_left_imm(h, src, count, maxBits)
              ELSE LET h1 == mov_reg_param(g1, inst.size, shift, src2p)
                       h2 == Emit(h1, Op3("and", scratch, shift, Imm(FromNat(maxBits))))
                       h3 == Emit(h2, Op3(Opcode, dst, src, scratch))
                   IN  IF Opcode \in {"ror", "lsr", "asr"}
                       THEN calculate_carry_shift_right(h3, src, scratch)
                       ELSE calculate_carry_shift_left(h3, src, scratch, maxBits)
        g3 == IF inst.flags # {}
              THEN [Emit(g2, Tst(dst)) EXCEPT !.carry = POISON]
              ELSE g2
    IN  mov_param_reg(g3, inst.size, dstp, dst)

op_rol(g, inst) ==
    LET dstp == inst.p[1]
        src1p == inst.p[2]
        src2p == inst.p[3]
        maxBits == inst.size * 8 - 1
        param == param_select_register(src1p, XReg(TEMP_REG1), inst.size)
        shift == param_select_register(src2p, XReg(TEMP_REG2), inst.size)
        output == IF can_use_dst_reg(dstp, src1p, src2p)
                  THEN param_select_register(dstp, XReg(TEMP_REG3), inst.size)
                  ELSE select_register(XReg(TEMP_REG3), inst.size)
        scratch2 == select_register(XReg(FUNC_SCRATCH_REG), inst.size)
        scratch == select_register(XReg(SCRATCH_REG1), inst.size)
        g1 == mov_reg_param(g, inst.size, param, src1p)
        g2 == IF is_immediate(src2p)
              THEN LET s == ToNat(Trunc(src2p.v, 6)) % (inst.size * 8)
                       s2 == ((inst.size * 8) - s) % (inst.size * 8)
                       h == IF s2 = 0
                            THEN IF output.n # param.n
                                 THEN Emit(g1, Mov(output, param)) ELSE g1
                            ELSE Emit(g1, Op3("ror", output, param, Imm(FromNat(s2))))
                   IN  calculate_carry_shift_left_imm(h, param, s, maxBits)
              ELSE LET h1 == mov_reg_param(g1, inst.size, shift, src2p)
                       h2 == Emit(h1, Mov(scratch, Imm(FromNat(inst.size * 8))))
                       h3 == Emit(h2, Op3("and", scratch2, shift, Imm(FromNat(maxBits))))
                       h4 == Emit(h3, Op3("sub", scratch, scratch, scratch2))
                       h5 == Emit(h4, Op3("ror", output, param, scratch))
                   IN  calculate_carry_shift_left(h5, param, scratch2, maxBits)
        g3 == IF inst.flags # {}
              THEN [Emit(g2, Tst(output)) EXCEPT !.carry = POISON]
              ELSE g2
    IN  mov_param_reg(g3, inst.size, dstp, output)

op_fmov(g, inst) ==
    LET dstp == inst.p[1]
        srcp == inst.p[2]
        usesel ==
            /\ is_float_register(dstp) /\ is_float_register(srcp)
            /\ inst.cond \notin {COND_ALWAYS, "U", "NU"}
            /\ inst.cond \in {"C", "NC"} => g.carry \in {CANONICAL, LOGICAL}
        dstreg == param_select_register(dstp, [k |-> "r", n |-> TEMPF_REG1, w |-> 8], inst.size)
        srcreg == param_select_register(srcp, [k |-> "r", n |-> TEMPF_REG2, w |-> 8], inst.size)
        fcsel(h, c) == Emit(h, [op |-> "fcsel", d |-> dstreg, n |-> srcreg,
                                m |-> dstreg, c |-> c])
    IN  IF usesel
        THEN LET g1 == mov_float_reg_param(g, inst.size, dstreg, dstp)
                 g2 == mov_float_reg_param(g1, inst.size, srcreg, srcp)
                 g3 == IF inst.cond \in {"C", "NC"}
                       THEN IF g2.carry = CANONICAL
                            THEN fcsel(g2, ARM_NOT_CONDITION(inst.cond))
                            ELSE fcsel(g2, ARM_CONDITION(inst.cond))
                       ELSE IF inst.cond \in {"A", "BE"}
                       THEN fcsel(load_carry(g2, TRUE), ARM_CONDITION(inst.cond))
                       ELSE fcsel(g2, ARM_CONDITION(inst.cond))
             IN  mov_float_param_reg(g3, inst.size, dstp, dstreg)
        ELSE bind_skip(mov_float_param_param(emit_skip(g, inst.cond), inst.size, dstp, srcp),
                       inst.cond)

op_fcmp(g, inst) ==
    LET src1p == inst.p[1]
        src2p == inst.p[2]
        srcreg1 == param_select_register(src1p, [k |-> "r", n |-> TEMPF_REG1, w |-> 8], inst.size)
        srcreg2 == param_select_register(src2p, [k |-> "r", n |-> TEMPF_REG2, w |-> 8], inst.size)
        g1 == IF ~is_float_register(src1p)
              THEN mov_float_reg_param(g, inst.size, srcreg1, src1p) ELSE g
        g2 == IF ~is_float_register(src2p)
              THEN mov_float_reg_param(g1, inst.size, srcreg2, src2p) ELSE g1
        g3 == Emit(g2, [op |-> "fcmp", n |-> srcreg1, m |-> srcreg2])
    IN  store_unordered(store_carry(g3, TRUE))


\* ROLINS: the destination takes the bits of the rotated source the mask
\* selects.  The generator picks one of six code shapes.
\* whether the mask's one bits are contiguous once shifted to the top
rolins_is_contiguous(mask, lz, instbits) ==
    AndBV(NotBV(ShlBV(mask, lz, 64), instbits),
          AddBV(NotBV(ShlBV(mask, lz, 64), instbits), {0}, 64)) = {}
rolins_is_right_aligned(mask) == AndBV(mask, AddBV(mask, {0}, 64)) = {}

\* ROLAND: dst = rol(src, shift) & mask
roland_zero(g, inst) ==
    LET zero == select_register(XReg(zr), inst.size)
        g1 == mov_param_reg(g, inst.size, inst.p[1], zero)
    IN  IF inst.flags # {} THEN [Emit(g1, Tst(zero)) EXCEPT !.carry = POISON] ELSE g1
roland_folded(g, inst, output) ==
    LET instbits == inst.size * 8
        count == ToNat(Trunc(inst.p[3].v, 6)) % instbits
        result == IF inst.p[3].v # {} THEN RolBV(inst.p[2].v, count, instbits)
                  ELSE inst.p[2].v
    IN  Emit(g, Mov(output, Imm(AndBV(result, inst.p[4].v))))
roland_right_aligned(g, inst, output, pop, s) ==
    LET instbits == inst.size * 8
        s2 == (instbits - s) % instbits
    IN  IF s >= pop THEN Emit(g, Bitfield("ubfx", output, output, s2, pop))
        ELSE Emit(IF s2 > 0 THEN Emit(g, Op3("ror", output, output, Imm(FromNat(s2))))
                  ELSE g,
                  Bitfield("bfc", output, output, pop, instbits - pop))
roland_contiguous(g, inst, output, pop, lz, s) ==
    LET instbits == inst.size * 8
        rot == (3 * instbits - (s + pop + lz)) % instbits
    IN  Emit(IF rot > 0 THEN Emit(g, Op3("ror", output, output, Imm(FromNat(rot))))
             ELSE g,
             Bitfield("ubfiz", output, output, instbits - pop - lz, pop))
\* the rotation when the mask did not decide the code
roland_rotate(g, inst, output, shift, scratch) ==
    LET instbits == inst.size * 8
        shiftp == inst.p[3]
        g1 == mov_reg_param(g, inst.size, output, inst.p[2])
    IN  IF is_immediate(shiftp)
        THEN LET s == (instbits - (ToNat(Trunc(shiftp.v, 6)) % instbits)) % instbits
             IN  IF s # 0 THEN Emit(g1, Op3("ror", output, output, Imm(FromNat(s))))
                 ELSE g1
        ELSE LET scratch2 == select_register(XReg(SCRATCH_REG2), inst.size)
                 g2 == mov_reg_param(g1, inst.size, shift, shiftp)
                 g3 == Emit(g2, Op3("and", scratch, shift, Imm(FromNat(instbits - 1))))
                 g4 == Emit(g3, Mov(scratch2, Imm(FromNat(instbits))))
                 g5 == Emit(g4, Op3("sub", scratch, scratch2, scratch))
             IN  Emit(g5, Op3("ror", output, output, scratch))
roland_mask(g, inst, output) ==
    LET instbits == inst.size * 8
        maskp == inst.p[4]
        maskop == IF inst.flags # {} THEN "ands" ELSE "and"
        mask == param_select_register(maskp, XReg(TEMP_REG2), inst.size)
    IN  IF is_immediate(maskp) /\ is_valid_immediate_mask(maskp.v, inst.size)
        THEN [g |-> Emit(g, Op3(maskop, output, output, Imm(maskp.v))), optimized |-> FALSE]
        ELSE IF ~is_immediate(maskp) \/ maskp.v # make_bitmask(instbits)
        THEN [g |-> Emit(mov_reg_param(g, inst.size, mask, maskp),
                         Op3(maskop, output, output, mask)),
              optimized |-> FALSE]
        ELSE [g |-> g, optimized |-> TRUE]
roland_body(g, inst, output, shift, scratch) ==
    LET instbits == inst.size * 8
        srcp == inst.p[2]
        shiftp == inst.p[3]
        maskp == inst.p[4]
        pop == population_count_64(maskp.v)
        lz == count_leading_zeros_64(maskp.v) % instbits
        is_right_aligned == rolins_is_right_aligned(maskp.v)
        is_contiguous == rolins_is_contiguous(maskp.v, lz, instbits)
        s == ToNat(Trunc(shiftp.v, 6)) % instbits
    IN  IF is_immediate(srcp) /\ is_immediate(shiftp) /\ is_immediate(maskp)
        THEN [g |-> roland_folded(g, inst, output), optimized |-> TRUE]
        ELSE IF is_immediate(maskp) /\ is_immediate(shiftp)
                /\ ~is_immediate_value(maskp, make_bitmask(instbits))
                /\ (is_right_aligned \/ is_contiguous)
        THEN [g |-> IF is_right_aligned
                    THEN roland_right_aligned(mov_reg_param(g, inst.size, output, srcp),
                                              inst, output, pop, s)
                    ELSE roland_contiguous(mov_reg_param(g, inst.size, output, srcp),
                                           inst, output, pop, lz, s),
              optimized |-> TRUE]
        ELSE roland_mask(roland_rotate(g, inst, output, shift, scratch), inst, output)
roland_finish(body, inst, output) ==
    LET g1 == mov_param_reg(body.g, inst.size, inst.p[1], output)
    IN  IF inst.flags # {}
        THEN [(IF body.optimized THEN Emit(g1, Tst(output)) ELSE g1) EXCEPT !.carry = POISON]
        ELSE g1
op_roland(g, inst) ==
    LET output == param_select_register(inst.p[1], XReg(TEMP_REG1), inst.size)
        shift == param_select_register(inst.p[3], XReg(TEMP_REG2), inst.size)
        scratch == param_select_register(inst.p[3], XReg(FUNC_SCRATCH_REG), inst.size)
    IN  IF is_immediate_value(inst.p[4], {}) THEN roland_zero(g, inst)
        ELSE roland_finish(roland_body(g, inst, output, shift, scratch), inst, output)

rolins_finish(g, inst, dst) ==
    IF inst.flags # {}
    THEN [Emit(mov_param_reg(g, inst.size, inst.p[1], dst), Tst(dst)) EXCEPT !.carry = POISON]
    ELSE mov_param_reg(g, inst.size, inst.p[1], dst)

\* a rotation by nothing
rolins_unshifted(inst) == 0

rolins_shift(inst) == ToNat(Trunc(inst.p[3].v, 6)) % (inst.size * 8)

\* a zero mask: nothing is inserted
rolins_nothing(g, inst, dst) ==
    IF inst.flags # {}
    THEN [Emit(mov_reg_param(g, inst.size, dst, inst.p[1]), Tst(dst)) EXCEPT !.carry = POISON]
    ELSE g

\* a constant source under a mask of all ones
rolins_folded(g, inst, dst) ==
    rolins_finish(
        Emit(g, Mov(dst, Imm(RolBV(Trunc(inst.p[2].v, inst.size * 8),
                                   rolins_shift(inst), inst.size * 8)))),
        inst, dst)

\* a mask of all ones: the rotated source replaces the destination
rolins_overwrite(g, inst, dst, shift) ==
    rolins_finish(
        IF shift # 0
        THEN Emit(mov_reg_param(g, inst.size, dst, inst.p[2]),
                  Op3("ror", dst, dst, Imm(FromNat(shift))))
        ELSE mov_reg_param(g, inst.size, dst, inst.p[2]),
        inst, dst)

\* a contiguous mask: one bit-field insert of pop bits at lsb
rolins_insert(g, inst, dst, src, rot, lsb, pop) ==
    rolins_finish(
        Emit(IF is_immediate(inst.p[2]) /\ rot > 0
             THEN Emit(mov_reg_param(g, inst.size, dst, inst.p[1]),
                       Mov(src, Imm(RorBV(Trunc(inst.p[2].v, inst.size * 8), rot,
                                          inst.size * 8))))
             ELSE IF rot > 0
             THEN Emit(mov_reg_param(mov_reg_param(g, inst.size, dst, inst.p[1]),
                                     inst.size, src, inst.p[2]),
                       Op3("ror", src, src, Imm(FromNat(rot))))
             ELSE mov_reg_param(mov_reg_param(g, inst.size, dst, inst.p[1]),
                                inst.size, src, inst.p[2]),
             Bitfield("bfi", dst, src, lsb, pop)),
        inst, dst)

rolins_contiguous(g, inst, dst, pop, lz, s, is_right_aligned) ==
    rolins_insert(g, inst, dst, select_register(XReg(SCRATCH_REG2), inst.size),
        IF is_right_aligned THEN (inst.size * 8 - s) % (inst.size * 8)
        ELSE (2 * inst.size * 8 - ((s + pop + lz) % (inst.size * 8))) % (inst.size * 8),
        IF is_right_aligned THEN 0 ELSE inst.size * 8 - pop - lz,
        pop)

\* a constant source under any other constant mask
rolins_or(g, inst, dst, scratch, result) ==
    IF result = {} THEN g
    ELSE IF is_valid_immediate(result, 12)
    THEN Emit(g, Op3("orr", dst, dst, Imm(result)))
    ELSE Emit(Emit(g, Mov(scratch, Imm(result))),
              Op3("orr", dst, dst, select_register(scratch, inst.size)))

rolins_constant(g, inst, dst, scratch) ==
    rolins_finish(
        rolins_or(
            IF is_valid_immediate_mask(inst.p[4].v, inst.size)
            THEN Emit(g, Op3("and", dst, dst, Imm(NotBV(inst.p[4].v, 64))))
            ELSE Emit(Emit(g, Mov(scratch, Imm(NotBV(inst.p[4].v, 64)))),
                      Op3("and", dst, dst, scratch)),
            inst, dst, scratch,
            AndBV(RolBV(Trunc(inst.p[2].v, inst.size * 8), rolins_shift(inst),
                        inst.size * 8),
                  inst.p[4].v)),
        inst, dst)

rolins_rotate(g, inst, src, scratch, shift, scratch2) ==
    IF is_immediate(inst.p[3])
    THEN IF (inst.size * 8 - rolins_shift(inst)) % (inst.size * 8) # 0
         THEN Emit(g, Op3("ror", scratch, src,
                          Imm(FromNat((inst.size * 8 - rolins_shift(inst)) % (inst.size * 8)))))
         ELSE Emit(g, Mov(scratch, src))
    ELSE Emit(Emit(Emit(Emit(mov_reg_param(g, inst.size, shift, inst.p[3]),
                             Mov(scratch, Imm(FromNat(inst.size * 8)))),
                        Op3("and", scratch2, shift, Imm(FromNat(inst.size * 8 - 1)))),
                   Op3("sub", scratch2, scratch, scratch2)),
              Op3("ror", scratch, src, scratch2))

rolins_merge(g, inst, dst, scratch, mask) ==
    rolins_finish(
        Emit(Emit(Emit(mov_reg_param(g, inst.size, mask, inst.p[4]),
                       Op3("bic", dst, dst, mask)),
                  Op3("and", scratch, scratch, mask)),
             Op3("orr", dst, dst, scratch)),
        inst, dst)

rolins_general(g, inst, dst, src, scratch) ==
    rolins_merge(
        rolins_rotate(
            mov_reg_param(mov_reg_param(g, inst.size, dst, inst.p[1]),
                          inst.size, src, inst.p[2]),
            inst, src, scratch,
            param_select_register(inst.p[3], XReg(SCRATCH_REG2), inst.size),
            param_select_register(inst.p[3], XReg(FUNC_SCRATCH_REG), inst.size)),
        inst, dst, scratch,
        param_select_register(inst.p[4], XReg(SCRATCH_REG2), inst.size))


rolins_dispatch(g, inst, use_dst, all_ones) ==
    IF is_immediate_value(inst.p[4], {})
    THEN rolins_nothing(g, inst, param_select_register(inst.p[1], XReg(TEMP_REG2), inst.size))
    ELSE IF is_immediate(inst.p[2]) /\ is_immediate(inst.p[4]) /\ is_immediate(inst.p[3])
            /\ all_ones
    THEN rolins_folded(g, inst, param_select_register(inst.p[1], XReg(TEMP_REG2), inst.size))
    ELSE IF is_immediate(inst.p[4]) /\ is_immediate(inst.p[3]) /\ all_ones
    THEN rolins_overwrite(g, inst,
             param_select_register(inst.p[1], XReg(TEMP_REG2), inst.size),
             (inst.size * 8 - rolins_shift(inst)) % (inst.size * 8))
    ELSE IF is_immediate(inst.p[4]) /\ is_immediate(inst.p[3])
            /\ (rolins_is_right_aligned(inst.p[4].v)
                \/ rolins_is_contiguous(inst.p[4].v,
                       count_leading_zeros_64(inst.p[4].v) % (inst.size * 8),
                       inst.size * 8))
    THEN rolins_contiguous(g, inst,
             IF use_dst
             THEN param_select_register(inst.p[1], XReg(SCRATCH_REG1), inst.size)
             ELSE select_register(XReg(SCRATCH_REG1), inst.size),
             population_count_64(inst.p[4].v),
             count_leading_zeros_64(inst.p[4].v) % (inst.size * 8),
             rolins_shift(inst),
             rolins_is_right_aligned(inst.p[4].v))
    ELSE IF is_immediate(inst.p[4]) /\ is_immediate(inst.p[3]) /\ is_immediate(inst.p[2])
    THEN rolins_constant(g, inst,
             param_select_register(inst.p[1], XReg(TEMP_REG2), inst.size),
             select_register(XReg(SCRATCH_REG1), inst.size))
    ELSE rolins_general(g, inst,
             IF use_dst
             THEN param_select_register(inst.p[1], XReg(TEMP_REG2), inst.size)
             ELSE select_register(XReg(TEMP_REG2), inst.size),
             param_select_register(inst.p[2], XReg(TEMP_REG1), inst.size),
             select_register(XReg(SCRATCH_REG1), inst.size))

op_rolins(g, inst) ==
    rolins_dispatch(g, inst,
        /\ is_int_register(inst.p[1])
        /\ is_int_register(inst.p[2]) => inst.p[2].n # inst.p[1].n
        /\ is_int_register(inst.p[4]) => inst.p[4].n # inst.p[1].n
        /\ is_int_register(inst.p[3]) => inst.p[3].n # inst.p[1].n,
        is_immediate(inst.p[4]) /\ inst.p[4].v = make_bitmask(inst.size * 8))

\* MULU: the unsigned product, its low half to dst and its high half to edst
\* a parameter of the size and scale kind: both are powers of two (the
\* sizes are SIZE_BYTE = 0, SIZE_WORD = 1, SIZE_DWORD = 2 and SIZE_QWORD = 3)
SizeScaleP(size, scale) == [t |-> "size_scale", size |-> size, scale |-> scale]
\* the address of a memory parameter
param_memory(p) == AddBV(ArrayBase, FromNat(8 * p.a[2]), 64)
\* arm::Mem: an absolute address, a base register alone, with an immediate
\* offset, or with an index register shifted left
MemAccess(op, r, n, o, sz, vec) ==
    [op |-> op, r |-> r, n |-> n, m |-> o, sz |-> sz, vec |-> vec]
MemAbs(address) == <<XReg(zr), Imm(address)>>
MemBase(basereg) == <<basereg, Imm({})>>
MemOffset(basereg, offset) == <<basereg, Imm(offset)>>
MemIndexed(basereg, indreg, shift) ==
    <<basereg, [k |-> "r", n |-> indreg.n, w |-> indreg.w, lsl |-> shift]>>
Str(r, at, sz) == MemAccess("str_mem", r, at[1], at[2], sz, FALSE)
FLdr(r, at) == MemAccess("ldr_mem", r, at[1], at[2], r.w, TRUE)
FStr(r, at) == MemAccess("str_mem", r, at[1], at[2], r.w, TRUE)

op_store(g, inst) ==
    LET basep == inst.p[1]
        indp == inst.p[2]
        srcp == inst.p[3]
        scalesizep == inst.p[4]
        size == scalesizep.size
        basereg == XReg(TEMP_REG1)
        offset == IF is_immediate(indp)
                  THEN SignExtend(ShlBV(indp.v, scalesizep.scale, 32), 32, 64)
                  ELSE {}
    IN  IF is_immediate(indp) /\ is_valid_immediate(offset, 15)
        THEN LET srcreg == param_select_register(srcp, XReg(TEMP_REG2), inst.size)
                 g1 == mov_reg_param(g, inst.size, srcreg, srcp)
                 memptr == MemAbs(AddBV(param_memory(basep), offset, 64))
             IN  IF size = 0 THEN Emit(g1, Str(select_register(srcreg, 4), memptr, 1))
                 ELSE IF size = 1
                 THEN Emit(g1, Str(select_register(srcreg, 4), memptr, 2))
                 ELSE IF size = 2
                 THEN Emit(g1, Str(select_register(srcreg, 4), memptr, 4))
                 ELSE Emit(g1, Str(select_register(srcreg, 8), memptr, 8))
        ELSE LET g1 == get_imm_relative(g, basereg, param_memory(basep))
                 srcreg == param_select_register(srcp, XReg(TEMP_REG2), inst.size)
                 offsreg == param_select_register(indp, XReg(TEMP_REG3), 8)
                 g2 == mov_reg_param(g1, 4, srcreg, srcp)
                 g3 == mov_reg_param(g2, 4, offsreg, indp)
                 g4 == IF scalesizep.scale # size /\ scalesizep.scale # 0
                       THEN Emit(g3, Op3("add", basereg, basereg,
                                         [k |-> "r", n |-> offsreg.n, w |-> 8,
                                          lsl |-> scalesizep.scale]))
                       ELSE g3
                 mem_ == IF scalesizep.scale # size
                         THEN IF scalesizep.scale # 0 THEN MemBase(basereg)
                              ELSE MemIndexed(basereg, offsreg, 0)
                         ELSE MemIndexed(basereg, offsreg, scalesizep.scale)
             IN  IF size = 0 THEN Emit(g4, Str(select_register(srcreg, 4), mem_, 1))
                 ELSE IF size = 1
                 THEN Emit(g4, Str(select_register(srcreg, 4), mem_, 2))
                 ELSE IF size = 2
                 THEN Emit(g4, Str(select_register(srcreg, 4), mem_, 4))
                 ELSE Emit(g4, Str(srcreg, mem_, 8))

op_fload(g, inst) ==
    LET dstp == inst.p[1]
        basep == inst.p[2]
        indp == inst.p[3]
        dstreg == param_select_register(dstp, [k |-> "r", n |-> TEMPF_REG1, w |-> 8], inst.size)
        basereg == XReg(TEMP_REG1)
        g1 == get_imm_relative(g, basereg, param_memory(basep))
        g2 == IF is_immediate(indp)
              THEN Emit(g1, FLdr(dstreg,
                                 MemOffset(basereg, MulBV(indp.v, FromNat(inst.size), 64))))
              ELSE LET indreg == param_select_register(indp, XReg(TEMP_REG1), 4)
                       g3 == mov_reg_param(g1, 4, indreg, indp)
                   IN  Emit(g3, FLdr(dstreg, MemIndexed(basereg, indreg,
                                                        IF inst.size = 4 THEN 2 ELSE 3)))
    IN  mov_float_param_reg(g2, inst.size, dstp, dstreg)

op_fstore(g, inst) ==
    LET basep == inst.p[1]
        indp == inst.p[2]
        srcp == inst.p[3]
        srcreg == param_select_register(srcp, [k |-> "r", n |-> TEMPF_REG1, w |-> 8], inst.size)
        basereg == XReg(TEMP_REG1)
        g1 == get_imm_relative(g, basereg, param_memory(basep))
        g2 == mov_float_reg_param(g1, inst.size, srcreg, srcp)
    IN  IF is_immediate(indp)
        THEN Emit(g2, FStr(srcreg, MemOffset(basereg, MulBV(indp.v, FromNat(inst.size), 64))))
        ELSE LET indreg == param_select_register(indp, XReg(TEMP_REG1), 4)
                 g3 == mov_reg_param(g2, 4, indreg, indp)
             IN  Emit(g3, FStr(srcreg, MemIndexed(basereg, indreg,
                                                  IF inst.size = 4 THEN 2 ELSE 3)))

op_mulu(g, inst) ==
    LET dstp == inst.p[1]
        edstp == inst.p[2]
        src1p == inst.p[3]
        src2p == inst.p[4]
        compute_hi == dstp # edstp
        src1 == param_select_register(src1p, XReg(TEMP_REG1), inst.size)
        src2 == param_select_register(src2p, XReg(TEMP_REG2), inst.size)
        lo == XReg(TEMP_REG3)
        hi == XReg(TEMP_REG2)
        g1 == IF is_immediate_value(src1p, {}) \/ is_immediate_value(src2p, {})
              THEN Emit(Emit(g, Mov(lo, XReg(zr))), Mov(hi, XReg(zr)))
              ELSE LET h == mov_reg_param(mov_reg_param(g, inst.size, src1, src1p),
                                          inst.size, src2, src2p)
                   IN  IF inst.size = 8
                       THEN Emit(Emit(h, Op3("mul", lo, src1, src2)),
                                 Op3("umulh", hi, src1, src2))
                       ELSE Emit(Emit(h, Op3("umull", lo, src1, src2)),
                                 Op3("lsr", hi, lo, Imm(FromNat(32))))
        g2 == mov_param_reg(g1, inst.size, dstp, lo)
        g3 == IF compute_hi THEN mov_param_reg(g2, inst.size, edstp, hi) ELSE g2
        f1 == Emit(g3, [op |-> "mrs", d |-> XReg(SCRATCH_REG1)])
        f2 == Emit(Emit(f1, Tst(lo)), Cset(XReg(TEMP_REG1), "EQ"))
        f3 == Emit(Emit(f2, Tst(hi)), Cset(XReg(TEMP_REG3), "EQ"))
        f4 == Emit(f3, Op3("and", XReg(TEMP_REG1), XReg(TEMP_REG1), XReg(TEMP_REG3)))
        f5 == Emit(f4, Bitfield("bfi", XReg(SCRATCH_REG1), XReg(TEMP_REG1), NZCV_Z, 1))
        f6 == Emit(Emit(f5, Tst(hi)), Cset(XReg(TEMP_REG3), "NE"))
        f7 == Emit(f6, Bitfield("bfi", XReg(SCRATCH_REG1), XReg(TEMP_REG3), NZCV_V, 1))
        f8 == Emit(f7, Op3("lsr", XReg(TEMP_REG3), hi, Imm(FromNat(inst.size * 8 - 1))))
        f9 == Emit(f8, Bitfield("bfi", XReg(SCRATCH_REG1), XReg(TEMP_REG3), NZCV_N, 1))
        f10 == Emit(f9, [op |-> "msr", n |-> XReg(SCRATCH_REG1)])
    IN  IF inst.flags # {} THEN [f10 EXCEPT !.carry = POISON] ELSE g3

\* a MULS that multiplied as MULU does
op_muls_as_mulu(g, inst) == op_mulu(g, inst)

\* MULS: the signed product
op_muls(g, inst) ==
    LET dstp == inst.p[1]
        edstp == inst.p[2]
        src1p == inst.p[3]
        src2p == inst.p[4]
        compute_hi == dstp # edstp
        src1 == param_select_register(src1p, XReg(TEMP_REG1), inst.size)
        src2 == param_select_register(src2p, XReg(TEMP_REG2), inst.size)
        lo == XReg(TEMP_REG3)
        hi == XReg(TEMP_REG2)
        g1 == IF is_immediate_value(src1p, {}) \/ is_immediate_value(src2p, {})
              THEN Emit(Emit(g, Mov(lo, XReg(zr))), Mov(hi, XReg(zr)))
              ELSE LET h == mov_reg_param(mov_reg_param(g, inst.size, src1, src1p),
                                          inst.size, src2, src2p)
                   IN  IF inst.size = 8
                       THEN Emit(Emit(h, Op3("mul", lo, src1, src2)),
                                 Op3("smulh", hi, src1, src2))
                       ELSE Emit(Emit(h, Op3("smull", lo, src1, src2)),
                                 Op3("lsr", hi, lo, Imm(FromNat(32))))
        g2 == mov_param_reg(g1, inst.size, dstp, lo)
        g3 == IF compute_hi THEN mov_param_reg(g2, inst.size, edstp, hi) ELSE g2
        f1 == Emit(g3, [op |-> "mrs", d |-> XReg(SCRATCH_REG1)])
        f2 == Emit(Emit(f1, Tst(lo)), Cset(XReg(TEMP_REG1), "EQ"))
        f3 == Emit(Emit(f2, Tst(hi)), Cset(XReg(SCRATCH_REG2), "EQ"))
        f4 == Emit(f3, Op3("and", XReg(TEMP_REG1), XReg(TEMP_REG1), XReg(SCRATCH_REG2)))
        f5 == Emit(f4, Bitfield("bfi", XReg(SCRATCH_REG1), XReg(TEMP_REG1), NZCV_Z, 1))
        f6 == IF inst.size = 4
              THEN Emit(Emit(f5, [op |-> "sxtw", d |-> XReg(TEMP_REG1), n |-> WReg(TEMP_REG3),
                                  lsb |-> 0, width |-> 32]),
                        Op3("subs", XReg(zr), XReg(TEMP_REG1), lo))
              ELSE Emit(Emit(f5, Op3("asr", XReg(TEMP_REG1), lo, Imm(FromNat(63)))),
                        Op3("subs", XReg(zr), XReg(TEMP_REG1), hi))
        f7 == Emit(f6, Cset(XReg(TEMP_REG1), "NE"))
        f8 == Emit(f7, Bitfield("bfi", XReg(SCRATCH_REG1), XReg(TEMP_REG1), NZCV_V, 1))
        f9 == Emit(f8, Op3("lsr", XReg(TEMP_REG1), hi, Imm(FromNat(inst.size * 8 - 1))))
        f10 == Emit(f9, Bitfield("bfi", XReg(SCRATCH_REG1), XReg(TEMP_REG1), NZCV_N, 1))
        f11 == Emit(f10, [op |-> "msr", n |-> XReg(SCRATCH_REG1)])
    IN  IF inst.flags # {} THEN [f11 EXCEPT !.carry = POISON] ELSE g3

\* a ROLC that rotated the source alone
op_rolc_as_rol(g, inst) == op_rol(g, inst)

\* ROLC: the source rotated left through the carry
op_rolc(g, inst) ==
    LET dstp == inst.p[1]
        src1p == inst.p[2]
        src2p == inst.p[3]
        bits == inst.size * 8
        maxBits == inst.size * 8 - 1
        param1 == param_select_register(src1p, XReg(TEMP_REG3), inst.size)
        output == IF can_use_dst_reg(dstp, src1p, src2p)
                  THEN param_select_register(dstp, XReg(TEMP_REG1), inst.size)
                  ELSE select_register(XReg(TEMP_REG1), inst.size)
        carry == select_register(XReg(SCRATCH_REG2), inst.size)
        shiftr == param_select_register(src2p, XReg(TEMP_REG2), inst.size)
        scratch == select_register(XReg(SCRATCH_REG1), inst.size)
        scratch2 == select_register(XReg(FUNC_SCRATCH_REG), inst.size)
        g1 == mov_reg_param(g, inst.size, param1, src1p)
        g2 == IF is_immediate(src2p)
              THEN LET shift == ToNat(Trunc(src2p.v, 6)) % bits
                       h1 == Emit(g1, Bitfield("ubfx", carry, param1, bits - shift, 1))
                       h2 == IF shift > 1
                             THEN Emit(h1, Bitfield("ubfx", output, param1,
                                                    bits - shift + 1, shift - 1))
                             ELSE h1
                       h3 == Emit(h2, Bitfield("bfi", select_register(output, 8),
                                               XReg(FLAGS_REG), shift - 1, 1))
                       h4 == Emit(h3, Bitfield("bfi", output, param1, shift, bits - shift))
                       h5 == Emit(h4, Bitfield("bfi", XReg(FLAGS_REG),
                                               select_register(carry, 8), 0, 1))
                   IN  calculate_carry_shift_left_imm(
                           IF shift # 0 THEN h5 ELSE Emit(g1, Mov(output, param1)),
                           param1, shift, maxBits)
              ELSE LET h1 == mov_reg_param(g1, inst.size, shiftr, src2p)
                       h2 == Emit(h1, Op3("and", scratch2, shiftr, Imm(FromNat(maxBits))))
                       h3 == Emit(h2, Op3("lsl", output, param1, scratch2))
                       h4 == Emit(h3, [op |-> "cbz", n |-> scratch2, t |-> Local("skip3")])
                       h5 == get_carry(h4, carry, FALSE)
                       h6 == Emit(h5, Op3("sub", scratch, scratch2, Imm({0})))
                       h7 == Emit(h6, [op |-> "cbz", n |-> scratch, t |-> Local("skip")])
                       h8 == Emit(h7, Op3("lsl", carry, carry, scratch))
                       h9 == Emit(h8, Mov(scratch, Imm(FromNat(maxBits + 2))))
                       h10 == Emit(h9, Op3("sub", scratch, scratch, scratch2))
                       h11 == Emit(h10, Op3("lsr", scratch, param1, scratch))
                       h12 == Emit(h11, Op3("orr", output, output, scratch))
                       h13 == Emit(h12, Bind("skip"))
                       h14 == Emit(h13, Op3("orr", output, output, carry))
                       h15 == Emit(h14, Bind("skip3"))
                   IN  calculate_carry_shift_left(h15, param1, scratch2, maxBits)
        g3 == IF inst.flags # {} THEN Emit(g2, Tst(output)) ELSE g2
    IN  [mov_param_reg(g3, inst.size, dstp, output) EXCEPT !.carry = POISON]

\* RORC: the source rotated right through the carry
op_rorc(g, inst) ==
    LET dstp == inst.p[1]
        src1p == inst.p[2]
        src2p == inst.p[3]
        bits == inst.size * 8
        maxBits == inst.size * 8 - 1
        param1 == param_select_register(src1p, XReg(TEMP_REG3), inst.size)
        output == IF can_use_dst_reg(dstp, src1p, src2p)
                  THEN param_select_register(dstp, XReg(TEMP_REG1), inst.size)
                  ELSE select_register(XReg(TEMP_REG1), inst.size)
        carry == select_register(XReg(SCRATCH_REG2), inst.size)
        shiftr == param_select_register(src2p, XReg(TEMP_REG2), inst.size)
        scratch == select_register(XReg(SCRATCH_REG1), inst.size)
        scratch2 == select_register(XReg(FUNC_SCRATCH_REG), inst.size)
        g1 == mov_reg_param(g, inst.size, param1, src1p)
        g2 == IF is_immediate(src2p)
              THEN LET shift == ToNat(Trunc(src2p.v, 6)) % bits
                       h1 == Emit(g1, Bitfield("ubfx", carry, param1, shift - 1, 1))
                       h2 == Emit(h1, Bitfield("ubfx", output, param1, shift, bits - shift))
                       h3 == Emit(h2, Bitfield("bfi", select_register(output, 8),
                                               XReg(FLAGS_REG), bits - shift, 1))
                       h4 == IF shift > 1
                             THEN Emit(h3, Bitfield("bfi", output, param1,
                                                    bits - shift + 1, shift - 1))
                             ELSE h3
                       h5 == Emit(h4, Bitfield("bfi", XReg(FLAGS_REG),
                                               select_register(carry, 8), 0, 1))
                   IN  calculate_carry_shift_right_imm(
                           IF shift # 0 THEN h5 ELSE Emit(g1, Mov(output, param1)),
                           param1, shift)
              ELSE LET h1 == mov_reg_param(g1, inst.size, shiftr, src2p)
                       h2 == Emit(h1, Op3("and", scratch2, shiftr, Imm(FromNat(maxBits))))
                       h3 == Emit(h2, Op3("lsr", output, param1, shiftr))
                       h4 == Emit(h3, [op |-> "cbz", n |-> scratch2, t |-> Local("skip3")])
                       h5 == get_carry(h4, carry, FALSE)
                       h6 == Emit(h5, Op3("lsl", carry, carry, Imm(FromNat(maxBits))))
                       h7 == Emit(h6, Op3("sub", scratch, scratch2, Imm({0})))
                       h8 == Emit(h7, [op |-> "cbz", n |-> scratch, t |-> Local("skip")])
                       h9 == Emit(h8, Op3("lsr", carry, carry, scratch))
                       h10 == Emit(h9, Mov(scratch, Imm(FromNat(maxBits + 2))))
                       h11 == Emit(h10, Op3("sub", scratch, scratch, scratch2))
                       h12 == Emit(h11, Op3("lsl", scratch, param1, scratch))
                       h13 == Emit(h12, Op3("orr", output, output, scratch))
                       h14 == Emit(h13, Bind("skip"))
                       h15 == Emit(h14, Op3("orr", output, output, carry))
                       h16 == Emit(h15, Bind("skip3"))
                   IN  calculate_carry_shift_right(h16, param1, scratch2)
        g3 == IF inst.flags # {} THEN Emit(g2, Tst(output)) ELSE g2
    IN  [mov_param_reg(g3, inst.size, dstp, output) EXCEPT !.carry = POISON]

(***************************************************************************)
(* Generation and execution in lockstep                                    *)
(***************************************************************************)
VARIABLES
    m_carry_state,  \* the generator's belief at the point where execution stands
    gp,             \* the host registers that live across UML instructions
    vec,            \* the host vector registers that live across UML instructions
    nzcv,           \* the native condition codes
    mem,            \* memory cells
    stack,          \* the frames pushed below the entry frame pointer
    sp,             \* the stack pointer
    frame,          \* the caller's registers in the frame the entry point built
    pc,             \* "run" inside generated code, "exited" after the exit point
    last,           \* the UML instruction executed last, with what it started from
    steps,          \* UML instructions executed so far
    m_cache         \* the code cache: its top, its limit and the bytes holding code

vars == <<m_carry_state, gp, vec, nzcv, mem, stack, sp, frame, pc, last, steps, m_cache>>

\* the registers the entry point saves for its caller: x19 to x30, and d8 to
\* d15 under the numbers 40 to 47; what the caller held in them
SavedRegs == (19 .. 30) \cup (40 .. 47)
HostValue(n) == {40} \cup FromNat(n)

PersistentGp == {int_register_map(i) : i \in 0 .. (REG_I_COUNT - 1)} \cup {FLAGS_REG, FP}
PersistentVec == {float_register_map(i) : i \in 0 .. (REG_F_COUNT - 1)}

\* the UML flags as the generated code keeps them: C and U in FLAGS_REG,
\* V, Z and S in the native V, Z and N
UmlFlags(fl, cc) ==
    (fl \cap (FLAG_C \cup FLAG_U))
    \cup (IF NZCV_V \in cc THEN FLAG_V ELSE {})
    \cup (IF NZCV_Z \in cc THEN FLAG_Z ELSE {})
    \cup (IF NZCV_N \in cc THEN FLAG_S ELSE {})
flags == UmlFlags(gp[FLAGS_REG], nzcv)

\* the machine at the start of a UML instruction: the scratch registers hold
\* whatever earlier code left in them
NotCalled == [obj |-> {}, address |-> {}]
Boot(junk, env) ==
    [x |-> [n \in 0 .. 30 |-> IF n \in PersistentGp THEN gp[n] ELSE junk],
     d |-> [n \in 0 .. 31 |-> IF n \in PersistentVec THEN vec[n] ELSE junk],
     nzcv |-> nzcv, mem |-> mem, stack |-> stack, sp |-> sp, frame |-> frame,
     ctl |-> "next", tgt |-> 0, env |-> env, called |-> NotCalled,
     touched |-> NoAccess]

Cells ==
    {<<"m", 0>>, <<"m", 1>>, <<"m_state.exp", 0>>, <<"m_state.fmod", 0>>,
     <<"m_near.emulated_flags", 0>>, <<"debug_flags", 0>>,
     <<"state.flags", 0>>, <<"state.fmod", 0>>, <<"state.exp", 0>>}
    \cup {<<"state.r", i>> : i \in 0 .. (REG_I_COUNT - 1)}
    \cup {<<"state.f", i>> : i \in 0 .. (REG_F_COUNT - 1)}
    \cup {<<"codeptr", id>> : id \in Handles}
    \cup {<<"hash.base", mode>> : mode \in HashModes}
    \cup {<<"hash.l1", i>> : i \in 0 .. 3}
    \cup {<<"hash.l2", i>> : i \in 0 .. 7}

\* what the cells hold once reset has run and the handles of the entry code
\* are bound: an empty hash table, the code pointers of the handles
AfterReset(c) ==
    CASE c[1] = "codeptr" -> HandleCode(c[2])
      [] c[1] = "hash.base" -> EmptyL1Addr
      [] c[1] = "hash.l1" -> EmptyL2Addr
      [] c[1] = "hash.l2" -> m_nocode
      [] OTHER -> {}

\* drc_hash_table: the code registered for (mode, pc), and its registration,
\* which gives the mode and the level-one entry tables of their own
get_codeptr(memory, mode, hashpc) ==
    IF memory[<<"hash.base", mode>>] = EmptyL1Addr THEN m_nocode
    ELSE IF memory[<<"hash.l1", HashL1(mode, hash_l1val(hashpc))>>] = EmptyL2Addr THEN m_nocode
    ELSE memory[<<"hash.l2", HashSlot(mode, hashpc)>>]
set_codeptr(memory, mode, hashpc, code) ==
    [memory EXCEPT ![<<"hash.base", mode>>] = L1TableAddr(mode),
                   ![<<"hash.l1", HashL1(mode, hash_l1val(hashpc))>>] =
                       L2TableAddr(mode, hash_l1val(hashpc)),
                   ![<<"hash.l2", HashSlot(mode, hashpc)>>] = code]
is_mode_populated(memory, mode) == memory[<<"hash.base", mode>>] # EmptyL1Addr

\* the value of a parameter in the current state
ParamValue(p) ==
    CASE p.t = "imm" -> p.v
      [] p.t = "ireg" -> gp[p.n]
      [] p.t = "freg" -> vec[p.n]
      [] p.t = "mem" -> IF p.a \in DOMAIN mem THEN mem[p.a] ELSE {}
      [] OTHER -> {}

NoInst == [op |-> "none", size |-> 4, cond |-> COND_ALWAYS, flags |-> {}, p |-> <<>>]
NoLast ==
    [inst |-> NoInst, carry |-> POISON, flags |-> {}, val |-> <<>>, ctl |-> "next", tgt |-> 0]
Record(inst, m) ==
    [inst |-> inst, carry |-> m_carry_state, flags |-> flags,
     val |-> [k \in DOMAIN inst.p |-> ParamValue(inst.p[k])],
     ctl |-> m.ctl, tgt |-> m.tgt]

MaxSteps == 3
MaxStack == 3

\* a run explores the instructions of an action at the steps in at, and
\* remembers in last what each started from if keep is set; if hold is set
\* it notes the instruction and, as before, what last remembered until then
During(n, keep) == [at |-> 0 .. (n - 1), keep |-> keep, hold |-> FALSE]
AtStep(n, keep) == [at |-> {n}, keep |-> keep, hold |-> FALSE]
Holding(n) == [at |-> {n}, keep |-> FALSE, hold |-> TRUE]

\* what a host function may leave in the caller-saved registers and in NZCV
ScratchVals == {{}, BV_ONES64}
HostEnvs == [junk : {BV_ONES64}, nzcv : {{}, {NZCV_N, NZCV_Z, NZCV_C, NZCV_V}}]
NoEnv == [junk |-> {}, nzcv |-> {}]

\* the return address of a call stands for the place after the call; what
\* matters of that place is the carry state the generator recorded there
SiteOf(cs) == CASE cs = POISON -> {0} [] cs = CANONICAL -> {1} [] cs = LOGICAL -> {0, 1}
CarryAt(site) == CHOOSE cs \in carry_state : SiteOf(cs) = site
HostReturn == {}

\* The code cache.  Code grows up from the bottom; top is the first free byte,
\* limit the end of the room for code, bytes the addresses code was copied to.
CacheGeometry == [linemask |-> 63, insn |-> 4]
code_size(code) ==
    CacheGeometry.insn * Cardinality({j \in 1 .. Len(code) : code[j].op # "bind"})
\* drc_cache::begin_codegen: null if the bytes to reserve do not fit
begin_codegen(cache, reserve_bytes) ==
    IF cache.top + reserve_bytes >= cache.limit THEN [ok |-> FALSE, cache |-> cache]
    ELSE [ok |-> TRUE, cache |-> [cache EXCEPT !.codegen = TRUE]]
end_codegen(cache) == [cache EXCEPT !.codegen = FALSE]
\* the code is copied to baseAddress and the top moves past it
emit_without_test(cache, baseAddress, code) ==
    [ret |-> code_size(code),
     cache |-> [cache EXCEPT
                  !.bytes = @ \cup (baseAddress .. (baseAddress + code_size(code) - 1)),
                  !.top = baseAddress + code_size(code)]]
emit(cache, baseAddress, code) ==
    LET alignment == baseAddress - cache.top
        cachetop == begin_codegen(cache, alignment + code_size(code))
    IN  IF ~cachetop.ok THEN [ret |-> 0, cache |-> cache]
        ELSE [ret |-> code_size(code),
              cache |-> end_codegen(
                  [cachetop.cache EXCEPT
                     !.bytes = @ \cup (baseAddress .. (baseAddress + code_size(code) - 1)),
                     !.top = @ + alignment + code_size(code)])]

\* the generator as it stands before the next instruction
At(cs) == [carry |-> cs, code |-> <<>>]
Here == At(m_carry_state)

\* execution moves on to the machine state m, where the generator stands at cs
Update(m, cs) ==
    /\ m_carry_state' = cs
    /\ gp' = [n \in PersistentGp |-> m.x[n]]
    /\ vec' = [n \in PersistentVec |-> m.d[n]]
    /\ nzcv' = m.nzcv
    /\ mem' = m.mem
    /\ stack' = m.stack
    /\ sp' = m.sp
    /\ frame' = m.frame
    /\ pc' = CASE m.ctl = "exit" -> "exited" [] m.ctl = "wild" -> "lost" [] OTHER -> "run"
    /\ steps' = steps + 1
    /\ m_cache' = m_cache
Commit(inst, m, cs, run) ==
    /\ Update(m, cs)
    /\ last' = IF run.keep THEN Record(inst, m)
               ELSE IF run.hold THEN [inst |-> inst, before |-> last]
               ELSE NoLast

\* the instruction's code as the generator gen left it, run on the
\* machine as it stands
Ran(gen, junk, env) == Run(gen.code, 1, Boot(junk, env))

\* an instruction after which execution continues with the next one
Continue(inst, gen, m, run) == m.ctl = "next" /\ Commit(inst, m, gen.carry, run)
Straight(inst, gen, run) ==
    /\ pc = "run"
    /\ steps \in run.at
    /\ \E junk \in ScratchVals : Continue(inst, gen, Ran(gen, junk, NoEnv), run)

\* an instruction that reaches into memory at an index: what it reached and
\* what the memory held before are remembered beside what it started from
Touched(inst, gen, m, run) ==
    /\ m.ctl = "next"
    /\ Update(m, gen.carry)
    /\ last' = [inst |-> inst, carry |-> m_carry_state, flags |-> flags,
                val |-> [k \in DOMAIN inst.p |-> ParamValue(inst.p[k])],
                before |-> mem, touched |-> m.touched]
Touching(inst, gen, run) ==
    /\ pc = "run"
    /\ steps \in run.at
    /\ \E junk \in ScratchVals : Touched(inst, gen, Ran(gen, junk, NoEnv), run)

\* a jump either falls through or lands behind the label, where the
\* generator's state is the one op_label left, whatever preceded the label
Land(inst, gen, m, run) ==
    IF m.ctl = "next" THEN Commit(inst, m, gen.carry, run)
    ELSE \E before \in carry_state :
           Commit(inst, m, op_label(At(before), [NoInst EXCEPT !.op = "LABEL"]).carry, run)
Jump(inst, gen, run) ==
    /\ pc = "run"
    /\ steps \in run.at
    /\ \E junk \in ScratchVals : Land(inst, gen, Ran(gen, junk, NoEnv), run)

\* a call either is skipped or enters the handle at its prologue with the
\* place after the call as the return address
Prologue(inst, h, m, run) ==
    Commit(inst, [Run(h.code, FindLabel(h.code, "handle") + 1, m) EXCEPT !.ctl = "call"],
           h.carry, run)
Enter(inst, gen, m, run) ==
    IF m.ctl = "next" THEN Commit(inst, m, gen.carry, run)
    ELSE IF m.ctl = "wild" THEN Commit(inst, m, POISON, run)
    ELSE \E before \in carry_state :
           Prologue(inst, op_handle(At(before), [NoInst EXCEPT !.op = "HANDLE"]),
                    [m EXCEPT !.ctl = "next", !.x[LR] = SiteOf(gen.carry)], run)
Call(inst, gen, run) ==
    /\ pc = "run"
    /\ steps \in run.at
    /\ Len(stack) < MaxStack
    /\ \E junk \in ScratchVals : Enter(inst, gen, Ran(gen, junk, NoEnv), run)

\* a return either is skipped or pops the frame and continues at the place
\* the popped return address stands for
Resume(inst, gen, m, run) ==
    IF m.ctl = "next" THEN Commit(inst, m, gen.carry, run)
    ELSE Commit(inst, m, CarryAt(m.x[LR]), run)
Return(inst, gen, run) ==
    /\ pc = "run"
    /\ steps \in run.at
    /\ Len(stack) > 1
    /\ \E junk \in ScratchVals : Resume(inst, gen, Ran(gen, junk, NoEnv), run)

\* the exit point drops every frame pushed since entry
exit_point_keeps_sp == <<[op |-> "bind", l |-> "exit_point"]>>
exit_point == <<[op |-> "mov_sp_fp"]>>
\* and returns to the caller of the entry point
exit_return == <<[op |-> "epilog"], [op |-> "ret"]>>

\* the entry point: called with the code to run in the first parameter
\* register
entry_point_without_frame ==
    <<Mov(XReg(BASE_REG), Imm(HostAddress)),
      [op |-> "ldr", d |-> WReg(FLAGS_REG), addr |-> <<"m_near.emulated_flags", 0>>, sz |-> 4],
      [op |-> "br", n |-> XReg(REG_PARAM1)]>>
entry_point ==
    <<[op |-> "prolog"],
      Mov(XReg(BASE_REG), Imm(HostAddress)),
      [op |-> "ldr", d |-> WReg(FLAGS_REG), addr |-> <<"m_near.emulated_flags", 0>>, sz |-> 4],
      [op |-> "br", n |-> XReg(REG_PARAM1)]>>

\* reset puts the entry point, the exit point, the no-code point and the
\* end-of-block point at the bottom of the cache
end_of_block_point ==
    <<Mov(XReg(REG_PARAM1), Imm(HostAddress)), [op |-> "hostfn"]>>
ResetCode ==
    entry_point \o exit_point \o exit_return
        \o <<[op |-> "br", n |-> XReg(REG_PARAM1)]>> \o end_of_block_point
CacheAfterReset(limit) ==
    emit([top |-> 0, limit |-> limit, codegen |-> FALSE, bytes |-> {}], 0, ResetCode).cache

\* an exit either is skipped or leaves the generated code through the exit
\* point
Leave(inst, gen, m, run) ==
    IF m.ctl = "next" THEN Commit(inst, m, gen.carry, run)
    ELSE Commit(inst, [Run(exit_point, 1, [m EXCEPT !.ctl = "next"]) EXCEPT !.ctl = "exit"],
                gen.carry, run)
Exit(inst, gen, run) ==
    /\ pc = "run"
    /\ steps \in run.at
    /\ \E junk \in ScratchVals : Leave(inst, gen, Ran(gen, junk, NoEnv), run)

\* an instruction whose generation leaves a code pointer in a cell of the
\* handle or of the hash table
Binding(inst, gen, memory, run) ==
    /\ pc = "run"
    /\ steps \in run.at
    /\ \E junk \in ScratchVals :
         Continue(inst, gen,
                  Run(gen.code, 1, [Boot(junk, NoEnv) EXCEPT !.mem = memory]), run)

\* drc_hash_table::block_begin: before the code of a block is generated, a
\* hash jump to a constant mode and pc has its tables allocated
block_begin(memory, inst) ==
    IF is_immediate(inst.p[1]) /\ is_immediate(inst.p[2])
    THEN set_codeptr(memory, ToNat(inst.p[1].v), inst.p[2].v,
                     get_codeptr(memory, ToNat(inst.p[1].v), inst.p[2].v))
    ELSE memory

\* a hash jump arrives at the code registered for the mode and pc, or, from
\* the no-code point back behind its branch, at the prologue of the handle,
\* or at no code at all
Arrive(inst, gen, m, run) ==
    IF m.ctl = "hash"
    THEN Commit(inst, m, op_hash(Here, [NoInst EXCEPT !.op = "HASH"]).carry, run)
    ELSE IF m.ctl = "call"
    THEN \E before \in carry_state :
           Prologue(inst, op_handle(At(before), [NoInst EXCEPT !.op = "HANDLE"]),
                    [m EXCEPT !.ctl = "next", !.x[LR] = SiteOf(gen.carry)], run)
    ELSE Commit(inst, m, POISON, run)
HashJump(inst, gen, run) ==
    /\ pc = "run"
    /\ steps \in run.at
    /\ is_immediate(inst.p[1]) =>
         /\ is_immediate(inst.p[2]) => inst.populated
         /\ inst.populated => is_mode_populated(block_begin(mem, inst), ToNat(inst.p[1].v))
    /\ \E env \in HostEnvs :
         Arrive(inst, gen,
                Run(gen.code, 1, [Boot(env.junk, env) EXCEPT !.mem = block_begin(mem, inst)]),
                run)

\* a call of a host function
HostCall(inst, gen, run) ==
    /\ pc = "run"
    /\ steps \in run.at
    /\ \E env \in HostEnvs : Commit(inst, Ran(gen, env.junk, env), gen.carry, run)

Inst(op, size, cond, fl, p) ==
    [op |-> op, size |-> size, cond |-> cond, flags |-> fl, p |-> p]

\* the state on entry into generated code: the entry point has loaded
\* FLAGS_REG from m_near.emulated_flags and branched to a handle, whose
\* prologue pushed the frame; the UML registers and the condition codes hold
\* what the caller left in them
InitIn(regvals, ccvals, flagvals, f0vals, f1vals, memories) ==
    /\ m_carry_state = POISON
    /\ \E r0 \in regvals, r1 \in regvals, fl \in flagvals :
         gp = [n \in PersistentGp |->
                 IF n = int_register_map(0) THEN r0
                 ELSE IF n = int_register_map(1) THEN r1
                 ELSE IF n = FLAGS_REG THEN fl
                 ELSE IF n = FP THEN FrameBase
                 ELSE FromNat(n)]
    /\ \E f0 \in f0vals, f1 \in f1vals :
         vec = [n \in PersistentVec |->
                  IF n = float_register_map(0) THEN f0
                  ELSE IF n = float_register_map(1) THEN f1
                  ELSE FromNat(n)]
    /\ nzcv \in ccvals
    /\ mem \in memories
    /\ stack = <<[fp |-> FrameBase, lr |-> HostReturn]>>
    /\ sp = SubBV(FrameBase, {4}, 64)
    /\ frame = [n \in SavedRegs |-> HostValue(n)]
    /\ m_cache = CacheAfterReset(256)
    /\ pc = "run"
    /\ last = NoLast
    /\ steps = 0
InitWith(regvals, ccvals, flagvals, f0vals, f1vals, memvals) ==
    InitIn(regvals, ccvals, flagvals, f0vals, f1vals,
           {[c \in Cells |-> IF c = <<"m", 0>> THEN v ELSE AfterReset(c)] : v \in memvals})

(***************************************************************************)
(* The opcode table: one action per UML opcode.  An instruction of the     *)
(* opcode drawn from S is generated by the opcode's handler and executed   *)
(***************************************************************************)
Of(S, op) == {inst \in S : inst.op = op}

NOP(S, run) == \E inst \in Of(S, "NOP") : Straight(inst, op_nop(Here, inst), run)
LABEL(S, run) == \E inst \in Of(S, "LABEL") : Straight(inst, op_label(Here, inst), run)
HANDLE(S, run) ==
    \E inst \in Of(S, "HANDLE") :
      Binding(inst, op_handle(Here, inst),
              [mem EXCEPT ![<<"codeptr", inst.p[1].id>>] = HandleCode(inst.p[1].id)], run)
HASH(S, run) ==
    \E inst \in Of(S, "HASH") :
      Binding(inst, op_hash(Here, inst),
              set_codeptr(mem, ToNat(inst.p[1].v), inst.p[2].v,
                          HashCode(HashSlot(ToNat(inst.p[1].v), inst.p[2].v))), run)
BREAK(S, run) == \E inst \in Of(S, "BREAK") : HostCall(inst, op_break(Here, inst), run)
DEBUG(S, run) == \E inst \in Of(S, "DEBUG") : HostCall(inst, op_debug(Here, inst), run)
HASHJMP(S, run) == \E inst \in Of(S, "HASHJMP") : HashJump(inst, op_hashjmp(Here, inst), run)
RECOVER(S, run) == \E inst \in Of(S, "RECOVER") : HostCall(inst, op_recover(Here, inst), run)
READ(S, run) == \E inst \in Of(S, "READ") : HostCall(inst, op_read(Here, inst), run)
READM(S, run) == \E inst \in Of(S, "READM") : HostCall(inst, op_readm(Here, inst), run)
WRITE(S, run) == \E inst \in Of(S, "WRITE") : HostCall(inst, op_write(Here, inst), run)
WRITEM(S, run) == \E inst \in Of(S, "WRITEM") : HostCall(inst, op_writem(Here, inst), run)
FREAD(S, run) == \E inst \in Of(S, "FREAD") : HostCall(inst, op_fread(Here, inst), run)
FWRITE(S, run) == \E inst \in Of(S, "FWRITE") : HostCall(inst, op_fwrite(Here, inst), run)
JMP(S, run) == \E inst \in Of(S, "JMP") : Jump(inst, op_jmp(Here, inst), run)
CALLH(S, run) == \E inst \in Of(S, "CALLH") : Call(inst, op_callh(Here, inst), run)
EXH(S, run) == \E inst \in Of(S, "EXH") : Call(inst, op_exh(Here, inst), run)
RET(S, run) == \E inst \in Of(S, "RET") : Return(inst, op_ret(Here, inst), run)
EXIT(S, run) == \E inst \in Of(S, "EXIT") : Exit(inst, op_exit(Here, inst), run)
CALLC(S, run) == \E inst \in Of(S, "CALLC") : HostCall(inst, op_callc(Here, inst), run)
GETFLGS(S, run) == \E inst \in Of(S, "GETFLGS") : Straight(inst, op_getflgs(Here, inst), run)
SETFMOD(S, run) == \E inst \in Of(S, "SETFMOD") : Straight(inst, op_setfmod(Here, inst), run)
SETFLGS(S, run) == \E inst \in Of(S, "SETFLGS") : Straight(inst, op_setflgs(Here, inst), run)
SAVE(S, run) == \E inst \in Of(S, "SAVE") : Straight(inst, op_save(Here, inst), run)
RESTORE(S, run) == \E inst \in Of(S, "RESTORE") : Straight(inst, op_restore(Here, inst), run)
CARRY(S, run) == \E inst \in Of(S, "CARRY") : Straight(inst, op_carry(Here, inst), run)
SET(S, run) == \E inst \in Of(S, "SET") : Straight(inst, op_set(Here, inst), run)
MOV(S, run) == \E inst \in Of(S, "MOV") : Straight(inst, op_mov(Here, inst), run)
ADD(S, run) == \E inst \in Of(S, "ADD") : Straight(inst, op_add(Here, inst), run)
ADDC(S, run) == \E inst \in Of(S, "ADDC") : Straight(inst, op_add(Here, inst), run)
SUB(S, run) == \E inst \in Of(S, "SUB") : Straight(inst, op_sub(Here, inst), run)
SUBB(S, run) == \E inst \in Of(S, "SUBB") : Straight(inst, op_sub(Here, inst), run)
CMP(S, run) == \E inst \in Of(S, "CMP") : Straight(inst, op_cmp(Here, inst), run)
DIVU(S, run) == \E inst \in Of(S, "DIVU") : Straight(inst, op_div(Here, inst), run)
DIVS(S, run) == \E inst \in Of(S, "DIVS") : Straight(inst, op_div(Here, inst), run)
SHL(S, run) == \E inst \in Of(S, "SHL") : Straight(inst, op_shift(Here, inst), run)
SHR(S, run) == \E inst \in Of(S, "SHR") : Straight(inst, op_shift(Here, inst), run)
SAR(S, run) == \E inst \in Of(S, "SAR") : Straight(inst, op_shift(Here, inst), run)
ROR(S, run) == \E inst \in Of(S, "ROR") : Straight(inst, op_shift(Here, inst), run)
ROL(S, run) == \E inst \in Of(S, "ROL") : Straight(inst, op_rol(Here, inst), run)
ROLINS(S, run) == \E inst \in Of(S, "ROLINS") : Straight(inst, op_rolins(Here, inst), run)
ROLAND(S, run) == \E inst \in Of(S, "ROLAND") : Straight(inst, op_roland(Here, inst), run)
ROLC(S, run) == \E inst \in Of(S, "ROLC") : Straight(inst, op_rolc(Here, inst), run)
RORC(S, run) == \E inst \in Of(S, "RORC") : Straight(inst, op_rorc(Here, inst), run)
MULU(S, run) == \E inst \in Of(S, "MULU") : Straight(inst, op_mulu(Here, inst), run)
MULS(S, run) == \E inst \in Of(S, "MULS") : Straight(inst, op_muls(Here, inst), run)
STORE(S, run) == \E inst \in Of(S, "STORE") : Touching(inst, op_store(Here, inst), run)
FLOAD(S, run) == \E inst \in Of(S, "FLOAD") : Touching(inst, op_fload(Here, inst), run)
FSTORE(S, run) == \E inst \in Of(S, "FSTORE") : Touching(inst, op_fstore(Here, inst), run)
FMOV(S, run) == \E inst \in Of(S, "FMOV") : Straight(inst, op_fmov(Here, inst), run)
FCMP(S, run) == \E inst \in Of(S, "FCMP") : Straight(inst, op_fcmp(Here, inst), run)

(***************************************************************************)
(* Operand values and the instructions that bring the flags and the carry  *)
(* state into every combination                                            *)
(***************************************************************************)
AllFlags == FLAG_C \cup FLAG_V \cup FLAG_Z \cup FLAG_S \cup FLAG_U
ArithFlags == FLAG_C \cup FLAG_V \cup FLAG_Z \cup FLAG_S
FloatFlags == FLAG_C \cup FLAG_Z \cup FLAG_U
MIN32 == {31}
MAX32 == make_bitmask(31)
ONES32 == make_bitmask(32)
MIN64 == {63}
MAX64 == make_bitmask(63)
FP64_ONE == 52 .. 61
FP64_NAN == 51 .. 62
FP32_ONE == 23 .. 29
FP32_NAN == 22 .. 30
M0 == MemP(<<"m", 0>>)
M1 == MemP(<<"m", 1>>)

\* subtractions leaving each combination of borrow, V, Z and S a
\* subtraction can leave
BorrowPairs ==
    {<<{}, {}>>, <<{0}, {}>>, <<{}, {0}>>, <<ONES32, {}>>, <<MIN32, {0}>>,
     <<{}, MIN32>>, <<{0}, MIN32 \cup {1}>>}
\* additions leaving each combination of carry, V, Z and S an addition can
\* leave
CarryPairs ==
    {<<{0}, {0}>>, <<{}, {}>>, <<ONES32, {0}>>, <<MAX32, {0}>>, <<MIN32, MIN32>>,
     <<ONES32, ONES32>>, <<MIN32, ONES32>>, <<MIN32, {}>>, <<ONES32, {1}>>}
\* comparisons with each of the four outcomes, F1 holding a NaN on entry
ComparePairs ==
    {<<FRegP(0), FRegP(1)>>, <<FRegP(0), FRegP(0)>>, <<FRegP(0), FRegP(2)>>,
     <<FRegP(2), FRegP(0)>>}

PrepInsts ==
    {Inst("NOP", 4, COND_ALWAYS, {}, <<>>)}
    \cup {Inst("CMP", 4, COND_ALWAYS, ArithFlags, <<ImmP(v[1]), ImmP(v[2])>>) :
            v \in BorrowPairs}
    \cup {Inst("ADD", 4, COND_ALWAYS, ArithFlags, <<M1, ImmP(v[1]), ImmP(v[2])>>) :
            v \in CarryPairs}
    \cup {Inst("FCMP", 8, COND_ALWAYS, FloatFlags, <<v[1], v[2]>>) : v \in ComparePairs}

NzcvVals == SUBSET {NZCV_N, NZCV_Z, NZCV_C, NZCV_V}
EmulatedFlagVals == SUBSET (FLAG_C \cup FLAG_U)

\* entry with the flags in any combination, F0 = 1.0 and F1 a NaN
InitFlags ==
    InitWith({FromNat(5)}, NzcvVals, EmulatedFlagVals, {FP64_ONE}, {FP64_NAN}, {FromNat(7)})

Prepare(run) ==
    \/ NOP(PrepInsts, run)
    \/ CMP(PrepInsts, run)
    \/ ADD(PrepInsts, run)
    \/ FCMP(PrepInsts, run)

\* the predicate a UML condition denotes over the UML flags
uml_condition(cond, fl) ==
    LET C == FLAG_BIT_C \in fl
        V == FLAG_BIT_V \in fl
        Z == FLAG_BIT_Z \in fl
        S == FLAG_BIT_S \in fl
        U == FLAG_BIT_U \in fl
    IN  CASE cond = COND_ALWAYS -> TRUE
          [] cond = "Z" -> Z [] cond = "NZ" -> ~Z
          [] cond = "S" -> S [] cond = "NS" -> ~S
          [] cond = "C" -> C [] cond = "NC" -> ~C
          [] cond = "V" -> V [] cond = "NV" -> ~V
          [] cond = "U" -> U [] cond = "NU" -> ~U
          [] cond = "A" -> ~C /\ ~Z [] cond = "BE" -> C \/ Z
          [] cond = "G" -> ~Z /\ (S = V) [] cond = "LE" -> Z \/ (S # V)
          [] cond = "L" -> S # V [] cond = "GE" -> S = V

(***************************************************************************)
(* SET after every combination of flags and carry state                    *)
(***************************************************************************)
SetInsts ==
    {Inst("SET", size, cond, {}, <<dst>>) :
        size \in {4, 8}, cond \in Conditions, dst \in {IRegP(0), M0}}

NextSet ==
    \/ Prepare(AtStep(0, FALSE))
    \/ SET(SetInsts, AtStep(1, TRUE))
SpecSet == InitFlags /\ [][NextSet]_vars

\* C2: SET cond leaves 1 in the destination if the predicate the condition
\* denotes holds over the UML flags it started from, and 0 otherwise, whatever
\* the flags and whatever the tracked carry state.
SetWritesCondition ==
    last.inst.op = "SET" =>
        Trunc(ParamValue(last.inst.p[1]), 8 * last.inst.size)
            = (IF uml_condition(last.inst.cond, last.flags) THEN {0} ELSE {})
SetWritesConditionWitness ==
    /\ last.inst.op = "SET"
    /\ last.inst.cond = "BE"
    /\ last.carry = CANONICAL
    /\ last.flags = FLAG_C \cup FLAG_U
    /\ is_memory(last.inst.p[1])
    /\ ParamValue(last.inst.p[1]) = {0}


(***************************************************************************)
(* Blocks of UML instructions: every opcode of the table, in any order     *)
(***************************************************************************)
StateBlock == MemP(<<"state", 0>>)
FlowConditions == {COND_ALWAYS, "C", "NC", "A", "BE", "Z", "U"}

Branch(op, cond, p, near, bound) ==
    [op |-> op, size |-> 4, cond |-> cond, flags |-> {}, p |-> p,
     near |-> near, bound |-> bound]

FlowInsts ==
    {Inst(op, 4, COND_ALWAYS, {}, <<LabelP(0)>>) : op \in {"NOP", "LABEL"}}
    \cup {Inst("HANDLE", 4, COND_ALWAYS, {}, <<HandleP(0)>>),
          Inst("HASH", 4, COND_ALWAYS, {}, <<ImmP({}), ImmP({})>>)}
    \cup {Branch("JMP", cond, <<LabelP(0)>>, near, TRUE) :
            cond \in FlowConditions, near \in BOOLEAN}
    \cup {Branch("CALLH", cond, <<HandleP(0)>>, TRUE, bound) :
            cond \in FlowConditions, bound \in BOOLEAN}
    \cup {Branch("EXH", cond, <<HandleP(0), ImmP({0})>>, TRUE, TRUE) :
            cond \in {COND_ALWAYS, "BE"}}
    \cup {Inst(op, 4, cond, {}, <<IRegP(0)>>) :
            op \in {"RET", "EXIT"}, cond \in {COND_ALWAYS, "C", "A"}}
    \cup {Inst("CALLC", 4, cond, {}, <<ImmP({}), M1>>) : cond \in {COND_ALWAYS, "C", "A"}}
    \cup {Inst("GETFLGS", 4, COND_ALWAYS, {}, <<IRegP(0), ImmP(AllFlags)>>),
          Inst("SETFLGS", 4, COND_ALWAYS, {}, <<ImmP(FLAG_C \cup FLAG_Z)>>),
          Inst("SETFLGS", 4, COND_ALWAYS, {}, <<IRegP(0)>>),
          Inst("SAVE", 4, COND_ALWAYS, {}, <<StateBlock>>),
          Inst("RESTORE", 4, COND_ALWAYS, {}, <<StateBlock>>),
          Inst("CARRY", 4, COND_ALWAYS, FLAG_C, <<IRegP(0), ImmP({})>>),
          Inst("CARRY", 4, COND_ALWAYS, FLAG_C, <<ImmP({1}), IRegP(1)>>)}
    \cup {Inst("SET", 4, cond, {}, <<IRegP(1)>>) : cond \in {"C", "BE"}}
    \cup {Inst("MOV", 8, cond, {}, <<IRegP(1), IRegP(0)>>) : cond \in {"NC", "A"}}
    \cup {Inst(op, 4, COND_ALWAYS, fl, <<IRegP(1), IRegP(0), ImmP(v)>>) :
            op \in {"ADD", "ADDC", "SUB", "SUBB"}, fl \in {{}, ArithFlags},
            v \in {{0}, ONES32}}
    \cup {Inst("CMP", 4, COND_ALWAYS, ArithFlags, <<IRegP(0), ImmP(v)>>) :
            v \in {{0}, ONES32}}
    \cup {Inst(op, 4, COND_ALWAYS, fl, <<IRegP(1), M0, IRegP(0), IRegP(1)>>) :
            op \in {"DIVU", "DIVS"}, fl \in {{}, FLAG_V \cup FLAG_Z \cup FLAG_S}}
    \cup {Inst(op, 4, COND_ALWAYS, fl, <<IRegP(1), IRegP(0), ImmP({0})>>) :
            op \in {"SHL", "SHR", "SAR", "ROR", "ROL"},
            fl \in {{}, FLAG_C \cup FLAG_Z \cup FLAG_S}}
    \cup {Inst("ROLINS", 4, COND_ALWAYS, fl, <<IRegP(1), IRegP(0), ImmP({2}), ImmP({4, 5})>>) :
            fl \in {{}, FLAG_Z \cup FLAG_S}}
    \cup {Inst("FMOV", 8, cond, {}, <<FRegP(1), FRegP(0)>>) : cond \in {"C", "A"}}
    \cup {Inst("FCMP", 8, COND_ALWAYS, FloatFlags, <<v[1], v[2]>>) : v \in ComparePairs}

\* entry into generated code with the native carry and the emulated carry
\* unrelated
Init ==
    InitWith({FromNat(5)}, {{}, {NZCV_C}, {NZCV_Z}}, {{}, FLAG_C},
             {FP64_ONE}, {FP64_NAN}, {FromNat(7)})

Block(S, run) ==
    \/ NOP(S, run) \/ LABEL(S, run) \/ HANDLE(S, run) \/ HASH(S, run)
    \/ JMP(S, run) \/ CALLH(S, run) \/ EXH(S, run) \/ RET(S, run)
    \/ EXIT(S, run) \/ CALLC(S, run)
    \/ GETFLGS(S, run) \/ SETFLGS(S, run) \/ SAVE(S, run) \/ RESTORE(S, run)
    \/ CARRY(S, run) \/ SET(S, run) \/ MOV(S, run)
    \/ ADD(S, run) \/ ADDC(S, run) \/ SUB(S, run) \/ SUBB(S, run) \/ CMP(S, run)
    \/ DIVU(S, run) \/ DIVS(S, run)
    \/ SHL(S, run) \/ SHR(S, run) \/ SAR(S, run) \/ ROR(S, run) \/ ROL(S, run)
    \/ ROLINS(S, run) \/ FMOV(S, run) \/ FCMP(S, run)

Next == Block(FlowInsts, During(MaxSteps, FALSE))
Spec == Init /\ [][Next]_vars

\* C1: wherever execution stands in a block, a tracked carry state of
\* CANONICAL means the native carry flag equals UML C (bit 0 of FLAGS_REG) and
\* LOGICAL means it equals the complement of UML C; only POISON leaves the
\* two unrelated.
CarryStateSound ==
    /\ m_carry_state = CANONICAL => ((NZCV_C \in nzcv) <=> (FLAG_BIT_C \in gp[FLAGS_REG]))
    /\ m_carry_state = LOGICAL => ((NZCV_C \in nzcv) <=> (FLAG_BIT_C \notin gp[FLAGS_REG]))
CarryStateSoundWitness ==
    /\ steps = MaxSteps
    /\ Len(stack) = 2
    /\ m_carry_state = LOGICAL
    /\ FLAG_BIT_C \in gp[FLAGS_REG]
    /\ NZCV_C \notin nzcv


(***************************************************************************)
(* Conditional instructions after every combination of flags and carry     *)
(* state, inside a handle so that there is a frame to return from          *)
(***************************************************************************)
ConditionalOps == {"JMP", "MOV", "FMOV", "EXIT", "CALLH", "EXH", "RET", "CALLC"}
AnyCondition == Conditions \cup {COND_ALWAYS}

CondInsts ==
    {Branch("JMP", cond, <<LabelP(0)>>, near, TRUE) :
        cond \in AnyCondition, near \in BOOLEAN}
    \cup {Branch("CALLH", cond, <<HandleP(0)>>, TRUE, bound) :
            cond \in AnyCondition, bound \in BOOLEAN}
    \cup {Branch("EXH", cond, <<HandleP(0), ImmP({0, 3})>>, TRUE, TRUE) :
            cond \in AnyCondition}
    \cup {Inst(op, 4, cond, {}, <<ImmP({1})>>) :
            op \in {"RET", "EXIT"}, cond \in AnyCondition}
    \cup {Inst("CALLC", 4, cond, {}, <<ImmP({}), M1>>) : cond \in AnyCondition}
    \cup {Inst("MOV", v[1], cond, {}, <<v[2], v[3]>>) :
            cond \in AnyCondition,
            v \in {<<8, IRegP(1), IRegP(0)>>, <<4, IRegP(1), IRegP(0)>>,
                   <<4, IRegP(1), ImmP({})>>, <<4, IRegP(1), ImmP({0})>>,
                   <<8, IRegP(1), ImmP(BV_ONES64)>>, <<4, IRegP(1), ImmP({2, 9})>>,
                   <<8, M0, IRegP(0)>>, <<4, IRegP(1), M0>>}}
    \cup {Inst("FMOV", v[1], cond, {}, <<v[2], v[3]>>) :
            cond \in AnyCondition,
            v \in {<<8, FRegP(0), FRegP(1)>>, <<4, FRegP(0), FRegP(1)>>,
                   <<8, M0, FRegP(1)>>, <<4, FRegP(0), M0>>}}

EnterInsts == {Branch("CALLH", COND_ALWAYS, <<HandleP(0)>>, TRUE, TRUE)}

Conditional(S, run) ==
    \/ JMP(S, run) \/ MOV(S, run) \/ FMOV(S, run) \/ EXIT(S, run)
    \/ CALLH(S, run) \/ EXH(S, run) \/ RET(S, run) \/ CALLC(S, run)

NextCond ==
    \/ CALLH(EnterInsts, AtStep(0, FALSE))
    \/ Prepare(AtStep(1, FALSE))
    \/ Conditional(CondInsts, AtStep(2, TRUE))
SpecCond == InitFlags /\ [][NextCond]_vars

\* what a step leaves alone of the UML registers, of memory and of the UML
\* flags
Untouched(regs, fregs, cells) ==
    /\ \A n \in PersistentGp \ regs : gp'[n] = gp[n]
    /\ \A n \in PersistentVec \ fregs : vec'[n] = vec[n]
    /\ \A c \in Cells \ cells : mem'[c] = mem[c]
    /\ flags' = flags

\* the step wrote the low bytes of v to the parameter and nothing else
Moved(dst, v, size) ==
    /\ Trunc(ParamValue(dst)', 8 * size) = Trunc(v, 8 * size)
    /\ Untouched(IF dst.t = "ireg" THEN {dst.n} ELSE {},
                 IF dst.t = "freg" THEN {dst.n} ELSE {},
                 IF dst.t = "mem" THEN {dst.a} ELSE {})

CondEffect(inst) ==
    CASE inst.op = "JMP" ->
           last'.ctl = "jump" /\ stack' = stack /\ Untouched({}, {}, {})
      [] inst.op \in {"MOV", "FMOV"} ->
           /\ last'.ctl = "next" /\ stack' = stack
           /\ Moved(inst.p[1], ParamValue(inst.p[2]), inst.size)
      [] inst.op = "EXIT" ->
           pc' = "exited" /\ stack' = <<>> /\ Untouched({}, {}, {})
      [] inst.op = "CALLH" ->
           /\ last'.ctl = "call" /\ Len(stack') = Len(stack) + 1
           /\ SubSeq(stack', 1, Len(stack)) = stack
           /\ Untouched({}, {}, {})
      [] inst.op = "EXH" ->
           /\ last'.ctl = "call" /\ Len(stack') = Len(stack) + 1
           /\ SubSeq(stack', 1, Len(stack)) = stack
           /\ Trunc(mem'[<<"m_state.exp", 0>>], 32) = Trunc(inst.p[2].v, 32)
           /\ Untouched({}, {}, {<<"m_state.exp", 0>>})
      [] inst.op = "RET" ->
           /\ last'.ctl = "ret" /\ stack' = SubSeq(stack, 1, Len(stack) - 1)
           /\ Untouched({}, {}, {})
      [] inst.op = "CALLC" ->
           /\ last'.ctl = "next" /\ stack' = stack
           /\ mem'[inst.p[2].a] = XorBV(mem[inst.p[2].a], HostMark)
           /\ \A n \in PersistentGp : gp'[n] = gp[n]
           /\ \A n \in PersistentVec : vec'[n] = vec[n]

CondNothing ==
    last'.ctl = "next" /\ pc' = "run" /\ stack' = stack /\ Untouched({}, {}, {})

CondExact(inst) ==
    inst.op \in ConditionalOps =>
        IF uml_condition(inst.cond, flags) THEN CondEffect(inst) ELSE CondNothing

\* C3: in every tracked carry state a conditional JMP, MOV, FMOV, EXIT,
\* CALLH, EXH, RET or CALLC takes effect if and only if its condition holds
\* over the UML flags (C and U being bits 0 and 4 of FLAGS_REG), and
\* otherwise changes nothing.
ConditionalExact ==
    [][\A inst \in CondInsts : last'.inst = inst => CondExact(inst)]_vars


(***************************************************************************)
(* Arithmetic with flags on every kind of operand                          *)
(***************************************************************************)
\* the reference results, computed bit by bit: a + b + c and a - b - c on
\* n bits with the carry or borrow out of the top bit
RECURSIVE uml_add_bits(_, _, _, _, _, _)
uml_add_bits(a, b, c, i, n, r) ==
    IF i = n THEN [r |-> r, c |-> c]
    ELSE uml_add_bits(a, b, ((i \in a) /\ (i \in b)) \/ (c /\ ((i \in a) \/ (i \in b))),
                      i + 1, n,
                      IF ((i \in a) # (i \in b)) # c THEN r \cup {i} ELSE r)

RECURSIVE uml_sub_bits(_, _, _, _, _, _)
uml_sub_bits(a, b, c, i, n, r) ==
    IF i = n THEN [r |-> r, c |-> c]
    ELSE uml_sub_bits(a, b, ((i \notin a) /\ (i \in b)) \/ (c /\ ((i \in a) = (i \in b))),
                      i + 1, n,
                      IF ((i \in a) # (i \in b)) # c THEN r \cup {i} ELSE r)

uml_result(sum, v, n) ==
    [r |-> sum.r,
     flags |-> (IF sum.c THEN FLAG_C ELSE {})
               \cup (IF v THEN FLAG_V ELSE {})
               \cup (IF sum.r = {} THEN FLAG_Z ELSE {})
               \cup (IF (n - 1) \in sum.r THEN FLAG_S ELSE {})]

uml_added(a, b, sum, n) ==
    uml_result(sum, ((n - 1) \in a) = ((n - 1) \in b) /\ ((n - 1) \in sum.r) # ((n - 1) \in a), n)
uml_subtracted(a, b, sum, n) ==
    uml_result(sum, ((n - 1) \in a) # ((n - 1) \in b) /\ ((n - 1) \in sum.r) # ((n - 1) \in a), n)

\* the reference result of ADD, ADDC, SUB, SUBB and CMP on n bits with UML
\* C as it stood before
uml_arith(op, a, b, c, n) ==
    CASE op = "ADD" -> uml_added(a, b, uml_add_bits(a, b, FALSE, 0, n, {}), n)
      [] op = "ADDC" -> uml_added(a, b, uml_add_bits(a, b, c, 0, n, {}), n)
      [] op \in {"SUB", "CMP"} -> uml_subtracted(a, b, uml_sub_bits(a, b, FALSE, 0, n, {}), n)
      [] op = "SUBB" -> uml_subtracted(a, b, uml_sub_bits(a, b, c, 0, n, {}), n)

ArithOps == {"ADD", "ADDC", "SUB", "SUBB", "CMP"}
Imms32 ==
    {{}, {0}, make_bitmask(12), {12}, {0, 12}, make_bitmask(24) \ make_bitmask(12),
     make_bitmask(24), MAX32, MIN32, ONES32}
Imms64 == Imms32 \cup {MIN64, MAX64, BV_ONES64}
ImmsOf(size) == IF size = 4 THEN Imms32 ELSE Imms64
FewImms == {{}, {0}, MIN32, ONES32}

\* pairs of sources of every kind: immediates, registers, memory, and the
\* same register twice
SourcePairs(size) ==
    {<<ImmP(a), ImmP(b)>> : a \in FewImms, b \in ImmsOf(size)}
    \cup {<<ImmP(a), IRegP(0)>> : a \in ImmsOf(size)}
    \cup {<<IRegP(0), ImmP(b)>> : b \in ImmsOf(size)}
    \cup {<<IRegP(0), IRegP(1)>>, <<IRegP(1), IRegP(0)>>, <<IRegP(0), IRegP(0)>>,
          <<M0, IRegP(1)>>, <<IRegP(0), M0>>}

ArithInsts(fl) ==
    {Inst(op, size, COND_ALWAYS, fl, <<dst, v[1], v[2]>>) :
        op \in {"ADD", "ADDC", "SUB", "SUBB"}, size \in {4, 8}, dst \in {IRegP(0), M1},
        v \in SourcePairs(4) \cup SourcePairs(8)}
    \cup {Inst("CMP", size, COND_ALWAYS, fl, v) :
            size \in {4, 8}, v \in SourcePairs(4) \cup SourcePairs(8)}
SizedInsts(fl) ==
    {inst \in ArithInsts(fl) :
        \A k \in DOMAIN inst.p :
            is_immediate(inst.p[k]) => inst.p[k].v \in ImmsOf(inst.size)}

\* the instructions that leave UML C clear or set in each carry state
CarryInsts ==
    {Inst("NOP", 4, COND_ALWAYS, {}, <<>>),
     Inst("CMP", 4, COND_ALWAYS, ArithFlags, <<ImmP({}), ImmP({0})>>),
     Inst("CMP", 4, COND_ALWAYS, ArithFlags, <<ImmP({0}), ImmP({})>>),
     Inst("ADD", 4, COND_ALWAYS, ArithFlags, <<M1, ImmP(ONES32), ImmP({0})>>),
     Inst("ADD", 4, COND_ALWAYS, ArithFlags, <<M1, ImmP({0}), ImmP({0})>>)}
SetCarry(run) ==
    \/ NOP(CarryInsts, run)
    \/ CMP(CarryInsts, run)
    \/ ADD(CarryInsts, run)

Arith(S, run) ==
    \/ ADD(S, run) \/ ADDC(S, run) \/ SUB(S, run) \/ SUBB(S, run) \/ CMP(S, run)

InitArith ==
    InitWith({{}, MAX32, BV_ONES64}, {{}, {NZCV_C}}, {{}, FLAG_C},
             {FP64_ONE}, {FP64_NAN}, {{0}})
NextArith ==
    \/ SetCarry(AtStep(0, FALSE))
    \/ Arith(SizedInsts(ArithFlags), AtStep(1, TRUE))
SpecArith == InitArith /\ [][NextArith]_vars

\* the sources of the instruction executed last, as they were before it
LastSources ==
    IF last.inst.op = "CMP" THEN <<last.val[1], last.val[2]>>
    ELSE <<last.val[2], last.val[3]>>
LastReference ==
    uml_arith(last.inst.op,
              Trunc(LastSources[1], 8 * last.inst.size),
              Trunc(LastSources[2], 8 * last.inst.size),
              FLAG_BIT_C \in last.flags, 8 * last.inst.size)

\* C4: ADD, ADDC, SUB, SUBB and CMP at sizes 4 and 8 with flag update
\* requested leave in the destination and in the UML flags C, V, Z, S what
\* the reference arithmetic gives, for operands of every kind.
ArithExact ==
    (last.inst.op \in ArithOps /\ last.inst.flags # {}) =>
        /\ flags \cap ArithFlags = LastReference.flags
        /\ last.inst.op # "CMP" =>
             Trunc(ParamValue(last.inst.p[1]), 8 * last.inst.size) = LastReference.r


(***************************************************************************)
(* Integer instructions that are asked for no flags                        *)
(***************************************************************************)
ShiftOps == {"SHL", "SHR", "SAR", "ROR", "ROL"}
DivOps == {"DIVU", "DIVS"}
Counts == {ImmP({}), ImmP({0}), ImmP(make_bitmask(5)), ImmP({0, 5}), IRegP(1), M1}

NoFlagsInsts ==
    {Inst(op, size, COND_ALWAYS, {}, <<dst, v[1], v[2]>>) :
        op \in {"ADD", "ADDC", "SUB", "SUBB"}, size \in {4, 8}, dst \in {IRegP(1), M0},
        v \in {<<IRegP(0), IRegP(1)>>, <<IRegP(0), ImmP({})>>, <<IRegP(0), ImmP({0, 12})>>,
               <<ImmP(ONES32), IRegP(0)>>, <<M0, ImmP({0})>>}}
    \cup {Inst(op, size, COND_ALWAYS, {}, <<dst, src, count>>) :
            op \in ShiftOps, size \in {4, 8}, dst \in {IRegP(1), M0},
            src \in {IRegP(0), ImmP(MIN32 \cup {0})}, count \in Counts}
    \cup {Inst(op, size, COND_ALWAYS, {}, <<IRegP(1), edst, IRegP(0), divisor>>) :
            op \in DivOps, size \in {4, 8}, edst \in {IRegP(1), M1},
            divisor \in {ImmP({}), ImmP({1}), IRegP(1), M1}}
    \cup {Inst("ROLINS", size, COND_ALWAYS, {}, <<IRegP(1), src, count, ImmP(mask)>>) :
            size \in {4, 8}, src \in {IRegP(0), ImmP({1, 3})},
            count \in {ImmP({}), ImmP({2}), M1},
            mask \in {{}, {4, 5}, {0, 9}, ONES32}}
    \cup {Inst("MOV", size, COND_ALWAYS, {}, <<IRegP(1), src>>) :
            size \in {4, 8}, src \in {IRegP(0), ImmP({}), M0}}

NoFlags(S, run) ==
    \/ ADD(S, run) \/ ADDC(S, run) \/ SUB(S, run) \/ SUBB(S, run)
    \/ SHL(S, run) \/ SHR(S, run) \/ SAR(S, run) \/ ROR(S, run) \/ ROL(S, run)
    \/ DIVU(S, run) \/ DIVS(S, run) \/ ROLINS(S, run) \/ MOV(S, run)

NextNoFlags ==
    \/ Prepare(AtStep(0, FALSE))
    \/ NoFlags(NoFlagsInsts, AtStep(1, TRUE))
SpecNoFlags == InitFlags /\ [][NextNoFlags]_vars

\* C5: an integer instruction whose flag mask is empty leaves the UML flags
\* C, V, Z, S and U as they were before it, shifts and rotates by any count
\* and divisions by any divisor included.
NoFlagsKeepsFlags ==
    (last.inst.op \in {i.op : i \in NoFlagsInsts} /\ last.inst.flags = {}) =>
        flags = last.flags


(***************************************************************************)
(* ADD and SUB with constant operands, beside the same instruction with    *)
(* the constants in registers                                              *)
(***************************************************************************)
\* the instruction with each immediate source in a register of its own, and
\* the machine with those registers holding the immediates
InRegisters(inst) ==
    [inst EXCEPT !.p[2] = IF is_immediate(@) THEN IRegP(6) ELSE @,
                 !.p[3] = IF is_immediate(@) THEN IRegP(7) ELSE @]
Loaded(m, inst) ==
    [m EXCEPT !.x[int_register_map(6)] = IF is_immediate(inst.p[2]) THEN inst.p[2].v ELSE @,
              !.x[int_register_map(7)] = IF is_immediate(inst.p[3]) THEN inst.p[3].v ELSE @]

\* what a run left in a parameter and in the UML flags
Outcome(m, dst) ==
    [flags |-> UmlFlags(m.x[FLAGS_REG], m.nzcv),
     dst |-> IF dst.t = "ireg" THEN m.x[dst.n] ELSE m.mem[dst.a]]

\* the instruction is executed, and what its register form would have left
\* from the same state is remembered beside it
Beside(inst, gen, m, other, run) ==
    /\ m.ctl = "next"
    /\ Update(m, gen.carry)
    /\ last' = [inst |-> inst, carry |-> m_carry_state, flags |-> flags,
                other |-> Outcome(other, inst.p[1])]
Compared(inst, gen, alt, run) ==
    /\ pc = "run"
    /\ steps \in run.at
    /\ \E junk \in ScratchVals :
         Beside(inst, gen, Ran(gen, junk, NoEnv),
                Run(alt.code, 1, Loaded(Boot(junk, NoEnv), inst)), run)

ADD_folded(S, run) ==
    \E inst \in Of(S, "ADD") :
        Compared(inst, op_add(Here, inst), op_add(Here, InRegisters(inst)), run)
SUB_folded(S, run) ==
    \E inst \in Of(S, "SUB") :
        Compared(inst, op_sub(Here, inst), op_sub(Here, InRegisters(inst)), run)

\* constants of every shape the peepholes tell apart: zero, twelve bits,
\* twelve bits shifted by twelve, twenty-four bits, and wider
FoldImms == Imms32 \cup {make_bitmask(12) \cup {30}}
FoldInsts ==
    {Inst(op, size, COND_ALWAYS, fl, <<dst, v[1], v[2]>>) :
        op \in {"ADD", "SUB"}, size \in {4, 8}, fl \in {{}, ArithFlags},
        dst \in {IRegP(1), M1},
        v \in {<<ImmP(a), IRegP(0)>> : a \in FoldImms}
              \cup {<<IRegP(0), ImmP(b)>> : b \in FoldImms}
              \cup {<<ImmP({}), ImmP(b)>> : b \in FoldImms}
              \cup {<<ImmP(a), ImmP({})>> : a \in FoldImms}
              \cup {<<M0, ImmP(b)>> : b \in FoldImms}}

InitFold ==
    InitWith({{}, MAX32, BV_ONES64}, {{}, {NZCV_C}}, {{}, FLAG_C},
             {FP64_ONE}, {FP64_NAN}, {MAX32})
NextFold ==
    \/ SetCarry(AtStep(0, FALSE))
    \/ ADD_folded(FoldInsts, AtStep(1, TRUE))
    \/ SUB_folded(FoldInsts, AtStep(1, TRUE))
SpecFold == InitFold /\ [][NextFold]_vars

\* C6: an ADD or SUB with a constant operand (zero, a 12-bit immediate, one
\* shifted by 12, or a 24-bit immediate split in two) leaves the same
\* destination value and the same UML flags C, V, Z, S as the same
\* instruction on registers holding the same values, with and without
\* flags requested.
FoldedAsGeneral ==
    last.inst.op \in {"ADD", "SUB"} =>
        /\ Trunc(ParamValue(last.inst.p[1]), 8 * last.inst.size)
             = Trunc(last.other.dst, 8 * last.inst.size)
        /\ flags \cap ArithFlags = last.other.flags \cap ArithFlags

(***************************************************************************)
(* Division: DIVU and DIVS over zero and non-zero divisors, given as an    *)
(* immediate, in a register and in memory                                  *)
(***************************************************************************)
Divisors == {ImmP({}), ImmP({1}), IRegP(0), IRegP(1), M0, M1}

DivInsts ==
    {Inst(op, size, COND_ALWAYS, fl, <<dst, edst, src1, src2>>) :
        op \in DivOps, size \in {4, 8}, fl \in {{}, FLAG_V \cup FLAG_Z \cup FLAG_S},
        dst \in {IRegP(1), M0}, edst \in {IRegP(1), IRegP(0), M1},
        src1 \in {M0, ImmP(FromNat(7))}, src2 \in Divisors}

\* I0 and I1 hold zero, a value whose low half alone is zero, or six
InitDiv ==
    InitWith({{}, {32}, FromNat(6)}, {{}, {NZCV_Z, NZCV_C}, {NZCV_V}},
             {{}, FLAG_C \cup FLAG_U}, {FP64_ONE}, {FP64_NAN}, {FromNat(3)})

NextDiv ==
    \/ DIVU(DivInsts, AtStep(0, TRUE))
    \/ DIVS(DivInsts, AtStep(0, TRUE))
SpecDiv == InitDiv /\ [][NextDiv]_vars

\* C7: after a DIVU or DIVS whose divisor is zero at the size of the
\* instruction, be the divisor an immediate, a register or a memory cell,
\* the UML V flag is set and the quotient destination and the remainder
\* destination hold what they held before the instruction.
DivideByZero ==
    (last.inst.op \in DivOps /\ Trunc(last.val[4], 8 * last.inst.size) = {}) =>
        /\ FLAG_BIT_V \in flags
        /\ ParamValue(last.inst.p[1]) = last.val[1]
        /\ ParamValue(last.inst.p[2]) = last.val[2]
DivideByZeroWitness ==
    /\ last.inst.op = "DIVS" /\ last.inst.size = 4
    /\ last.inst.p[4] = IRegP(0) /\ last.val[4] = {32}
    /\ last.inst.p[1] = M0 /\ last.inst.p[2] = IRegP(1)
    /\ FLAG_BIT_V \notin last.flags /\ FLAG_BIT_V \in flags
    /\ mem[<<"m", 0>>] = FromNat(3) /\ ParamValue(IRegP(1)) = FromNat(6)

(***************************************************************************)
(* ROLINS: rotate the source left and insert it under the mask             *)
(***************************************************************************)
RolinsExample ==
    Inst("ROLINS", 4, COND_ALWAYS, {},
         <<IRegP(0), ImmP(FromNat(170)), ImmP(FromNat(4)), ImmP(FromNat(4080))>>)

RolinsInsts ==
    {RolinsExample}
    \cup {Inst("ROLINS", size, COND_ALWAYS, fl, <<dst, src, count, mask>>) :
            size \in {4, 8}, fl \in {{}, FLAG_Z \cup FLAG_S}, dst \in {IRegP(0), M0},
            src \in {ImmP(FromNat(170)), IRegP(1), M1},
            count \in {ImmP({}), ImmP(FromNat(4)), ImmP(FromNat(28)), IRegP(1)},
            mask \in {ImmP({}), ImmP(FromNat(4080)), ImmP(FromNat(255)), ImmP({0, 9}),
                      ImmP(ONES32), IRegP(1)}}

\* I0 and I1 hold 0x12345678, the same under a set top bit, or five
InitRolins ==
    InitWith({FromNat(305419896), FromNat(305419896) \cup {63}, FromNat(5)},
             {{}, {NZCV_Z, NZCV_C}}, {{}, FLAG_C \cup FLAG_U},
             {FP64_ONE}, {FP64_NAN}, {FromNat(305419896)})

NextRolins == ROLINS(RolinsInsts, AtStep(0, TRUE))
SpecRolins == InitRolins /\ [][NextRolins]_vars

RolinsExampleRan ==
    last.inst = RolinsExample /\ Trunc(last.val[1], 32) = FromNat(305419896)

\* C8, as stated: ROLINS I0, #0xAA, #4, #0x00000FF0 at size 4 executed
\* with I0 = 0x12345678 leaves I0 = 0x1234A678.
RolinsQuoted ==
    RolinsExampleRan => Trunc(ParamValue(IRegP(0)), 32) = FromNat(305440376)

\* C8: ROLINS I0, #0xAA, #4, #0x00000FF0 at size 4 executed with
\* I0 = 0x12345678 leaves I0 = 0x12345AA8: bits 4..11 are replaced by those
\* of 0xAA rotated left by four, 0xAA0.
RolinsInserts ==
    RolinsExampleRan => Trunc(ParamValue(IRegP(0)), 32) = FromNat(305420968)
RolinsInsertsWitness ==
    /\ last.inst = RolinsExample
    /\ last.val[1] = FromNat(305419896) \cup {63}
    /\ gp[int_register_map(0)] = FromNat(305420968)

(***************************************************************************)
(* SAVE and RESTORE: the UML state is saved into a state block, something  *)
(* of it is changed, and the block is restored                             *)
(***************************************************************************)
\* the UML state a state block holds
Snapshot ==
    [r |-> [i \in 0 .. (REG_I_COUNT - 1) |-> gp[int_register_map(i)]],
     f |-> [i \in 0 .. (REG_F_COUNT - 1) |-> vec[float_register_map(i)]],
     fmod |-> Trunc(mem[<<"m_state.fmod", 0>>], 8),
     exp |-> Trunc(mem[<<"m_state.exp", 0>>], 32),
     flags |-> flags]

\* a SAVE, on which the state it is to save is remembered
Remember(inst, gen, m) ==
    /\ m.ctl = "next"
    /\ Update(m, gen.carry)
    /\ last' = [inst |-> inst, carry |-> m_carry_state, saved |-> Snapshot]
Saving(inst, gen, run) ==
    /\ pc = "run"
    /\ steps \in run.at
    /\ \E junk \in ScratchVals : Remember(inst, gen, Ran(gen, junk, NoEnv))

SAVE_remembered(S, run) ==
    \E inst \in Of(S, "SAVE") : Saving(inst, op_save(Here, inst), run)

\* what brings the state to save about: each carry state, each flag, a
\* rounding mode and an exception parameter
BeforeInsts ==
    {Inst("NOP", 4, COND_ALWAYS, {}, <<>>),
     Inst("CMP", 4, COND_ALWAYS, ArithFlags, <<ImmP({}), ImmP({0})>>),
     Inst("CMP", 4, COND_ALWAYS, ArithFlags, <<ImmP(MIN32), ImmP({0})>>),
     Inst("ADD", 4, COND_ALWAYS, ArithFlags, <<IRegP(2), ImmP(ONES32), ImmP({0})>>),
     Inst("FCMP", 8, COND_ALWAYS, FloatFlags, <<FRegP(0), FRegP(1)>>),
     Inst("SETFMOD", 4, COND_ALWAYS, {}, <<ImmP({0, 1})>>),
     Branch("EXH", COND_ALWAYS, <<HandleP(0), ImmP({0, 31})>>, TRUE, TRUE)}

\* what changes the state between the SAVE and the RESTORE
BetweenInsts ==
    {Inst("NOP", 4, COND_ALWAYS, {}, <<>>),
     Inst("MOV", 8, COND_ALWAYS, {}, <<IRegP(0), ImmP(BV_ONES64)>>),
     Inst("MOV", 4, COND_ALWAYS, {}, <<IRegP(7), IRegP(0)>>),
     Inst("CMP", 4, COND_ALWAYS, ArithFlags, <<ImmP({}), ImmP({0})>>),
     Inst("CMP", 4, COND_ALWAYS, ArithFlags, <<ImmP({0}), ImmP({0})>>),
     Inst("CMP", 4, COND_ALWAYS, ArithFlags, <<ImmP(MIN32), ImmP({0})>>),
     Inst("ADD", 4, COND_ALWAYS, ArithFlags, <<IRegP(1), ImmP(ONES32), ImmP({0})>>),
     Inst("ADD", 8, COND_ALWAYS, {}, <<IRegP(3), IRegP(3), ImmP({0})>>),
     Inst("FCMP", 8, COND_ALWAYS, FloatFlags, <<FRegP(0), FRegP(1)>>),
     Inst("FCMP", 8, COND_ALWAYS, FloatFlags, <<FRegP(0), FRegP(0)>>),
     Inst("FMOV", 8, COND_ALWAYS, {}, <<FRegP(0), FRegP(1)>>),
     Inst("FMOV", 8, COND_ALWAYS, {}, <<FRegP(7), FRegP(0)>>),
     Inst("SETFMOD", 4, COND_ALWAYS, {}, <<ImmP({1})>>),
     Inst("SETFLGS", 4, COND_ALWAYS, {}, <<ImmP({})>>),
     Inst("SETFLGS", 4, COND_ALWAYS, {}, <<ImmP(AllFlags)>>),
     Inst("DIVU", 4, COND_ALWAYS, {}, <<IRegP(1), IRegP(1), IRegP(0), ImmP({})>>),
     Branch("EXH", COND_ALWAYS, <<HandleP(0), ImmP({2})>>, TRUE, TRUE)}

Changes(S, run) ==
    \/ NOP(S, run) \/ MOV(S, run) \/ CMP(S, run) \/ ADD(S, run) \/ FCMP(S, run)
    \/ FMOV(S, run) \/ SETFMOD(S, run) \/ SETFLGS(S, run) \/ DIVU(S, run) \/ EXH(S, run)

SaveInsts ==
    {Inst(op, 4, COND_ALWAYS, {}, <<StateBlock>>) : op \in {"SAVE", "RESTORE"}}

InitSave ==
    InitWith({FromNat(5), MIN64}, {{}, {NZCV_N, NZCV_V}}, {{}, FLAG_U},
             {FP64_ONE}, {FP64_NAN}, {FromNat(7)})

NextSave ==
    \/ Changes(BeforeInsts, During(2, FALSE))
    \/ SAVE_remembered(SaveInsts, AtStep(2, FALSE))
    \/ Changes(BetweenInsts, Holding(3))
    \/ RESTORE(SaveInsts, Holding(4))
SpecSave == InitSave /\ [][NextSave]_vars

\* C9: after a SAVE into a state block, an instruction that changes the
\* state and a RESTORE from the block, the eight integer registers, the
\* eight float registers, fmod, exp and the flags C, V, Z, S and U are bit
\* for bit what they were before the SAVE, in whatever carry state the SAVE
\* was generated.
RestoreReproduces ==
    last.inst.op = "RESTORE" => Snapshot = last.before.before.saved
RestoreReproducesWitness ==
    /\ last.inst.op = "RESTORE" /\ last.before.inst.op = "SETFLGS"
    /\ last.before.before.carry = LOGICAL
    /\ last.before.before.saved.flags = FLAG_C \cup FLAG_S \cup FLAG_U
    /\ last.before.before.saved.fmod = {0, 1}
    /\ flags = FLAG_C \cup FLAG_S \cup FLAG_U

(***************************************************************************)
(* FCMP: a float comparison with each of its outcomes, and GETFLGS after   *)
(* it                                                                      *)
(***************************************************************************)
FloatSources == {FRegP(0), FRegP(1), FRegP(2), M0}

FcmpInsts ==
    {Inst("FCMP", size, COND_ALWAYS, FloatFlags, <<src1, src2>>) :
        size \in {4, 8}, src1 \in FloatSources, src2 \in FloatSources}

GetflgsInsts ==
    {Inst("GETFLGS", size, COND_ALWAYS, {}, <<dst, ImmP(mask)>>) :
        size \in {4, 8}, dst \in {IRegP(0), M1},
        mask \in {FLAG_U, FLAG_C \cup FLAG_U, AllFlags}}

\* F0 is 1.0, F1 a NaN and the memory operand -1.0 or a negative NaN, each
\* as a double or as a single
InitFcmp ==
    InitWith({FromNat(5)}, {{}, {NZCV_N, NZCV_Z, NZCV_C, NZCV_V}}, {{}, FLAG_C \cup FLAG_U},
             {FP64_ONE, FP32_ONE}, {FP64_NAN, FP32_NAN},
             {FP64_ONE \cup {63}, FP32_ONE \cup {31}, FP64_NAN \cup {63}})

NextFcmp ==
    \/ FCMP(FcmpInsts, AtStep(0, TRUE))
    \/ GETFLGS(GetflgsInsts, Holding(1))
SpecFcmp == InitFcmp /\ [][NextFcmp]_vars

\* the AND of the native conditions not-equal, carry-set, overflow-set and
\* plus
NativeUnordered(cc) ==
    CondHolds("NE", cc) /\ CondHolds("HS", cc) /\ CondHolds("VS", cc) /\ CondHolds("PL", cc)

\* whether the operands the comparison rec started from are unordered
OperandsUnordered(rec) == FpUnordered(rec.val[1], rec.val[2], rec.inst.size)

FcmpOutcomes ==
    {FcmpFlags(a, b, 8) : a \in {FP64_ONE, FP64_NAN}, b \in {FP64_ONE, FP64_ONE \cup {63}}}
    \cup {FcmpFlags(FP64_ONE \cup {63}, FP64_ONE, 8)}

\* C10: after FCMP, whichever of the four outcomes the native comparison
\* had, bit 4 (U) of FLAGS_REG is the AND of the native conditions NE, CS,
\* VS and PL, which is 1 exactly if the operands are unordered; and GETFLGS
\* with the mask U after FCMP of a NaN with 1.0 yields 0x10.
UnorderedStored ==
    /\ last.inst.op = "FCMP" =>
          /\ nzcv \in FcmpOutcomes
          /\ (FLAG_BIT_U \in gp[FLAGS_REG]) <=> NativeUnordered(nzcv)
          /\ (FLAG_BIT_U \in gp[FLAGS_REG]) <=> OperandsUnordered(last)
    /\ (/\ last.inst.op = "GETFLGS" /\ last.inst.p[2].v = FLAG_U
        /\ last.before.inst.size = 8
        /\ last.before.val = <<FP64_NAN, FP64_ONE>>) =>
          ParamValue(last.inst.p[1]) = FLAG_U
UnorderedStoredWitness ==
    /\ last.inst.op = "GETFLGS" /\ last.inst.p = <<IRegP(0), ImmP(FLAG_U)>>
    /\ last.before.inst.size = 8
    /\ last.before.inst.p = <<FRegP(1), FRegP(0)>>
    /\ last.before.val = <<FP64_NAN, FP64_ONE>>
    /\ FLAG_BIT_U \notin last.before.flags
    /\ gp[int_register_map(0)] = {FLAG_BIT_U}
    /\ nzcv = {NZCV_C, NZCV_V}


(***************************************************************************)
(* C11: the opcodes that call out of the generated code                    *)
(***************************************************************************)
CallingOps ==
    {"CALLC", "READ", "READM", "WRITE", "WRITEM", "FREAD", "FWRITE", "CALLH", "EXH",
     "HASHJMP", "RECOVER", "BREAK", "DEBUG"}

\* the accessors of an address space: resolved only, or with a specific
\* accessor of the native width reached through the dispatch table
ResolvedOnly ==
    [have_specific |-> FALSE, native_bytes |-> 4, is_virtual |-> FALSE,
     no_mask |-> TRUE, mask_simple |-> FALSE, high_bits |-> 0, mask_high_bits |-> FALSE,
     low_bits |-> 0, address_mask |-> ONES32, displacement |-> {},
     addr_shift |-> 0, big_endian |-> FALSE]
Accessors ==
    {ResolvedOnly,
     [ResolvedOnly EXCEPT !.have_specific = TRUE],
     [ResolvedOnly EXCEPT !.have_specific = TRUE, !.is_virtual = TRUE,
                          !.no_mask = FALSE, !.mask_simple = TRUE,
                          !.address_mask = make_bitmask(24), !.high_bits = 4,
                          !.low_bits = 20, !.displacement = {3}],
     [ResolvedOnly EXCEPT !.have_specific = TRUE, !.no_mask = FALSE,
                          !.address_mask = make_bitmask(24) \ {7}, !.high_bits = 4,
                          !.low_bits = 20, !.mask_high_bits = TRUE],
     [ResolvedOnly EXCEPT !.have_specific = TRUE, !.native_bytes = 8,
                          !.big_endian = TRUE],
     [ResolvedOnly EXCEPT !.have_specific = TRUE, !.native_bytes = 8,
                          !.big_endian = TRUE, !.addr_shift = 4, !.is_virtual = TRUE],
     [ResolvedOnly EXCEPT !.have_specific = TRUE, !.native_bytes = 8,
                          !.addr_shift = 3, !.no_mask = FALSE,
                          !.address_mask = make_bitmask(24) \ {7}],
     [ResolvedOnly EXCEPT !.have_specific = TRUE, !.native_bytes = 8,
                          !.addr_shift = 2]}

SpaceP(bytes) == [t |-> "space", bytes |-> bytes]
Access(op, size, p, acc, near) ==
    [op |-> op, size |-> size, cond |-> COND_ALWAYS, flags |-> {}, p |-> p,
     acc |-> acc, near |-> near]
Hosted(op, p, near, enabled) ==
    [op |-> op, size |-> 4, cond |-> COND_ALWAYS, flags |-> {}, p |-> p,
     near |-> near, enabled |-> enabled]
HashJmp(modep, pcp, handp, populated, bound) ==
    [op |-> "HASHJMP", size |-> 4, cond |-> COND_ALWAYS, flags |-> {},
     p |-> <<modep, pcp, handp>>, populated |-> populated, bound |-> bound]

CallConditions == {COND_ALWAYS, "C", "NZ", "A"}
CallInsts ==
    {Inst("CALLC", 4, cond, {}, <<ImmP({}), M1>>) : cond \in CallConditions}
    \cup {Branch("CALLH", cond, <<HandleP(0)>>, TRUE, bound) :
            cond \in CallConditions, bound \in BOOLEAN}
    \cup {Branch("EXH", cond, <<HandleP(1), exp>>, TRUE, bound) :
            cond \in CallConditions, bound \in BOOLEAN, exp \in {ImmP({0, 3}), IRegP(0)}}
    \cup {Access("READ", 4, <<IRegP(1), addrp, SpaceP(4)>>, acc, near) :
            addrp \in {IRegP(0), ImmP({4, 21}), M0}, acc \in Accessors, near \in BOOLEAN}
    \cup {Access("READM", 4, <<M0, IRegP(0), ImmP({0, 1}), SpaceP(4)>>, acc, near) :
            acc \in Accessors, near \in BOOLEAN}
    \cup {Access("WRITE", size, <<IRegP(0), IRegP(1), SpaceP(4)>>, acc, near) :
            size \in {4, 8}, acc \in Accessors, near \in BOOLEAN}
    \cup {Access("WRITEM", 4, <<ImmP({4, 21}), M0, IRegP(1), SpaceP(4)>>, acc, near) :
            acc \in Accessors, near \in BOOLEAN}
    \cup {Access("FREAD", size, <<dstp, IRegP(0), SpaceP(size)>>, ResolvedOnly, near) :
            size \in {4, 8}, dstp \in {FRegP(0), M0}, near \in BOOLEAN}
    \cup {Access("FWRITE", size, <<IRegP(0), srcp, SpaceP(size)>>, ResolvedOnly, near) :
            size \in {4, 8}, srcp \in {FRegP(0), M0}, near \in BOOLEAN}
    \cup {HashJmp(modep, pcp, HandleP(1), populated, bound) :
            modep \in {ImmP({}), IRegP(1)}, pcp \in {ImmP({12}), IRegP(0)},
            populated \in BOOLEAN, bound \in BOOLEAN}
    \cup {Hosted("RECOVER", <<IRegP(0), ImmP({0})>>, near, FALSE) : near \in BOOLEAN}
    \cup {Hosted("BREAK", <<>>, near, FALSE) : near \in BOOLEAN}
    \cup {Hosted("DEBUG", <<pcp>>, near, enabled) :
            pcp \in {ImmP({12}), IRegP(0)}, near \in BOOLEAN, enabled \in BOOLEAN}

Calling(S, run) ==
    \/ CALLC(S, run) \/ CALLH(S, run) \/ EXH(S, run) \/ HASHJMP(S, run)
    \/ READ(S, run) \/ READM(S, run) \/ WRITE(S, run) \/ WRITEM(S, run)
    \/ FREAD(S, run) \/ FWRITE(S, run)
    \/ RECOVER(S, run) \/ BREAK(S, run) \/ DEBUG(S, run)

\* entry with the debugger's hook wanted or not
InitCalls ==
    InitIn({{}, {12}}, {{}, {NZCV_C}}, {{}, FLAG_C}, {FP64_ONE}, {FP64_NAN},
           {[c \in Cells |-> IF c = <<"debug_flags", 0>> THEN v ELSE AfterReset(c)] :
              v \in {{0}, {0, 1}}})

NextCalls ==
    \/ Prepare(AtStep(0, FALSE))
    \/ Calling(CallInsts, AtStep(1, TRUE))
SpecCalls == InitCalls /\ [][NextCalls]_vars

\* C11: once the generator has processed an opcode that emits a call out of
\* the generated code (CALLC, READ, READM, WRITE, WRITEM, FREAD, FWRITE, CALLH,
\* EXH, HASHJMP, RECOVER, BREAK, and DEBUG generated with the debugger
\* enabled), the tracked carry state is POISON, conditional or not.
CallsPoison ==
    (last.inst.op \in CallingOps /\ (last.inst.op = "DEBUG" => last.inst.enabled))
        => m_carry_state = POISON
\* a conditional call whose condition failed, generated where the carry was
\* tracked
CallsPoisonWitness ==
    /\ last.inst.op \in {"CALLC", "CALLH", "EXH"}
    /\ last.inst.cond # COND_ALWAYS
    /\ last.carry # POISON
    /\ last.ctl = "next"
    /\ m_carry_state = POISON

(***************************************************************************)
(* C12: HASHJMP                                                            *)
(***************************************************************************)
HashPcs == {{12}, {12, 13}}
HashInsts ==
    {Inst("HASH", 4, COND_ALWAYS, {}, <<ImmP(FromNat(mode)), ImmP(v)>>) :
        mode \in HashModes, v \in HashPcs}
HashJmpInsts ==
    {HashJmp(modep, pcp, HandleP(1), populated, bound) :
        modep \in {ImmP({}), ImmP({0}), IRegP(1), M1},
        pcp \in {ImmP({12}), ImmP({12, 13}), IRegP(0), M0},
        populated \in BOOLEAN, bound \in BOOLEAN}

\* the mode and the pc of a hash jump are 32-bit operands
ModeOf(v) == ToNat(Trunc(v, 32) \cap (0 .. 8))
IsMode(v) == Trunc(v, 32) \subseteq (0 .. 8) /\ ModeOf(v) \in HashModes
JumpsOfMode == {inst \in HashJmpInsts : IsMode(ParamValue(inst.p[1]))}

\* entry with I0 holding a pc and I1 a mode, either with or without bits
\* above the low 32
InitHash ==
    InitIn({{}, {0}, {12}, {12, 13}, {32}, {12, 40}}, {{}}, {{}}, {FP64_ONE}, {FP64_NAN},
           {[c \in Cells |-> IF c = <<"m", 0>> THEN {12} ELSE AfterReset(c)]})

NextHash ==
    \/ HASH(HashInsts, During(2, FALSE))
    \/ CALLH(EnterInsts, During(2, FALSE))
    \/ HASHJMP(JumpsOfMode, AtStep(2, TRUE))
SpecHash == InitHash /\ [][NextHash]_vars

JumpMode == ModeOf(last.val[1])
JumpPc == Trunc(last.val[2], 32)
JumpRegistered == get_codeptr(mem, JumpMode, JumpPc) # m_nocode
\* C12: HASHJMP mode,pc,handle drops every frame pushed since entry and then,
\* with the mode and the pc immediate or not, arrives at the code HASH
\* registered for (mode, pc) if there is any; if there is none it stores pc in
\* exp and arrives at the handle, on a stack holding the frame of that call
\* alone.
HashJumps ==
    last.inst.op = "HASHJMP" =>
        IF JumpRegistered
        THEN /\ last.ctl = "hash"
             /\ last.tgt = HashSlot(JumpMode, JumpPc)
             /\ stack = <<>>
        ELSE /\ last.ctl = "call"
             /\ last.tgt = last.inst.p[3].id
             /\ Trunc(mem[<<"m_state.exp", 0>>], 32) = JumpPc
             /\ Len(stack) = 1

(***************************************************************************)
(* C13: from execute to EXIT and back                                      *)
(***************************************************************************)
\* the caller of execute: its non-volatile registers hold its own values, its
\* stack pointer is EntrySp, the first parameter is the code to run
HostMachine(env, code) ==
    [Boot(env.junk, env) EXCEPT
        !.x = [n \in 0 .. 30 |-> IF n \in SavedRegs THEN HostValue(n)
                                 ELSE IF n = REG_PARAM1 THEN code ELSE env.junk],
        !.d = [n \in 0 .. 31 |-> IF (n + 32) \in SavedRegs THEN HostValue(n + 32)
                                 ELSE env.junk]]
SavedNow(m) == [n \in SavedRegs |-> IF n < 32 THEN m.x[n] ELSE m.d[n - 32]]

\* execute(entry): the entry point, then the prologue of the entry handle
ExecuteInst(entry) == [NoInst EXCEPT !.op = "execute", !.p = <<entry>>]
Entered(entry, m, run) ==
    /\ m.ctl = "call"
    /\ \E before \in carry_state :
         Prologue(ExecuteInst(entry),
                  op_handle(At(before), [NoInst EXCEPT !.op = "HANDLE"]),
                  [m EXCEPT !.ctl = "next"], run)
execute(entry, run) ==
    /\ pc = "host"
    /\ steps \in run.at
    /\ \E env \in HostEnvs :
         Entered(entry,
                 Run(entry_point, 1, HostMachine(env, mem[<<"codeptr", entry.id>>])), run)

\* an exit either is skipped or leaves through the exit point, which returns
\* to the caller of execute
Returned(inst, m, out, cs) ==
    /\ Update([out EXCEPT !.ctl = "exit"], cs)
    /\ last' = [inst |-> inst, val |-> [k \in DOMAIN inst.p |-> ParamValue(inst.p[k])],
                depth |-> Len(stack), ret |-> Trunc(out.x[REG_PARAM1], 32),
                regs |-> SavedNow(out), ctl |-> out.ctl]
Returning(inst, gen, run) ==
    /\ pc = "run"
    /\ steps \in run.at
    /\ \E env \in HostEnvs :
         LET m == Ran(gen, env.junk, env)
         IN  IF m.ctl = "next" THEN Commit(inst, m, gen.carry, run)
             ELSE Returned(inst, m,
                           Run(exit_point \o exit_return, 1, [m EXCEPT !.ctl = "next"]),
                           gen.carry)
EXIT_returning(S, run) ==
    \E inst \in Of(S, "EXIT") : Returning(inst, op_exit(Here, inst), run)

QuotedValue ==
    {4, 5, 6, 7, 9, 10, 11, 12, 14, 15, 18, 19, 20, 21, 23, 25, 27, 28, 31,
     35, 36, 37, 38, 41, 42, 44, 46, 50, 52, 53, 57, 60}
QuotedResult ==
    {4, 5, 6, 7, 9, 10, 11, 12, 14, 15, 18, 19, 20, 21, 23, 25, 27, 28, 31}
InsideInsts ==
    {Inst("MOV", 8, COND_ALWAYS, {}, <<IRegP(0), ImmP(QuotedValue)>>),
     Inst("MOV", 8, COND_ALWAYS, {}, <<M0, ImmP(QuotedValue)>>),
     Inst("MOV", 4, COND_ALWAYS, {}, <<IRegP(0), ImmP({0, 31})>>),
     Inst("MOV", 8, COND_ALWAYS, {}, <<IRegP(1), IRegP(0)>>),
     Inst("FMOV", 8, COND_ALWAYS, {}, <<FRegP(0), M0>>),
     Inst("CMP", 4, COND_ALWAYS, ArithFlags, <<IRegP(0), ImmP({})>>),
     Branch("CALLH", COND_ALWAYS, <<HandleP(0)>>, TRUE, TRUE),
     Branch("CALLH", "NZ", <<HandleP(1)>>, TRUE, FALSE)}
ExitInsts ==
    {Inst("EXIT", 4, cond, {}, <<retp>>) :
        cond \in {COND_ALWAYS, "Z", "NC"},
        retp \in {IRegP(0), IRegP(1), M0, ImmP({0, 2}), ImmP(QuotedValue)}}

\* before execute is called: reset has run, the handles are bound
InitHost ==
    /\ m_carry_state = POISON
    /\ gp = [n \in PersistentGp |-> HostValue(n)]
    /\ vec = [n \in PersistentVec |-> HostValue(n + 32)]
    /\ nzcv \in {{}, {NZCV_Z}, {NZCV_C}}
    /\ \E fl \in {{}, FLAG_C} :
         mem = [c \in Cells |-> IF c = <<"m_near.emulated_flags", 0>> THEN fl
                                ELSE AfterReset(c)]
    /\ stack = <<>>
    /\ sp = EntrySp
    /\ frame = [n \in SavedRegs |-> {}]
    /\ m_cache = CacheAfterReset(256)
    /\ pc = "host"
    /\ last = NoLast
    /\ steps = 0

Inside(S, run) == MOV(S, run) \/ FMOV(S, run) \/ CMP(S, run) \/ CALLH(S, run)
NextExit ==
    \/ execute(HandleP(0), AtStep(0, FALSE))
    \/ Inside(InsideInsts, [at |-> {1, 2, 3}, keep |-> FALSE, hold |-> FALSE])
    \/ EXIT_returning(ExitInsts, [at |-> {1, 2, 3, 4}, keep |-> FALSE, hold |-> FALSE])
SpecExit == InitHost /\ [][NextExit]_vars

\* C13: an EXIT, at whatever depth of nested calls, returns to the caller of
\* execute with the stack pointer and every non-volatile register of the
\* caller as they were on entry, and execute returns the low 32 bits of the
\* parameter of EXIT (MOV I0,#0x123456789ABCDEF0 ; EXIT I0 returns 0x9ABCDEF0).
ExitReturns ==
    pc = "exited" =>
        /\ last.ctl = "ret"
        /\ sp = EntrySp
        /\ last.regs = [n \in SavedRegs |-> HostValue(n)]
        /\ last.ret = Trunc(last.val[1], 32)
        /\ (last.val[1] = QuotedValue => last.ret = QuotedResult)
\* the quoted example, two calls deep
ExitReturnsWitness ==
    /\ pc = "exited"
    /\ last.inst.p[1] = IRegP(0)
    /\ last.val[1] = QuotedValue
    /\ last.depth = 3
    /\ last.ret = QuotedResult

(***************************************************************************)
(* C14: matched calls and returns                                          *)
(***************************************************************************)
\* the address of the instruction following the call made at step n
ReturnSite(n) == {6} \cup FromNat(n)
NoCalls == [ctl |-> "next", calls |-> <<>>, at |-> {}, from |-> <<>>]
Pending == last.calls
\* an instruction between calls and returns leaves the pending calls alone
Passing(m, cs) ==
    /\ Update(m, cs)
    /\ last' = [last EXCEPT !.ctl = "next"]
Between(inst, gen, run) ==
    /\ pc = "run"
    /\ steps \in run.at
    /\ \E env \in HostEnvs :
         LET m == Ran(gen, env.junk, env) IN m.ctl = "next" /\ Passing(m, gen.carry)
\* a call made from the place before ReturnSite(steps): bl leaves that
\* address in LR and the handle's prologue runs
CalledFrom(inst, h, m) ==
    /\ Update([Run(h.code, FindLabel(h.code, "handle") + 1, m) EXCEPT !.ctl = "call"],
              h.carry)
    /\ last' = [ctl |-> "call", at |-> {}, from |-> <<>>,
                calls |-> Append(Pending, [sp |-> sp, depth |-> Len(stack), fp |-> gp[FP],
                                           site |-> m.x[LR], op |-> inst.op])]
CallFrom(inst, gen, run) ==
    /\ pc = "run"
    /\ steps \in run.at
    /\ Len(stack) < MaxStack
    /\ \E junk \in ScratchVals :
         LET m == Ran(gen, junk, NoEnv)
         IN  IF m.ctl = "next" THEN Passing(m, gen.carry)
             ELSE /\ m.ctl = "call"
                  /\ \E before \in carry_state :
                       CalledFrom(inst, op_handle(At(before), [NoInst EXCEPT !.op = "HANDLE"]),
                                  [m EXCEPT !.ctl = "next", !.x[LR] = ReturnSite(steps)])
\* a return matching a pending call: ret continues at the address in LR
ReturnTo(inst, gen, run) ==
    /\ pc = "run"
    /\ steps \in run.at
    /\ Pending # <<>>
    /\ \E junk \in ScratchVals :
         LET m == Ran(gen, junk, NoEnv)
         IN  IF m.ctl = "next" THEN Passing(m, gen.carry)
             ELSE /\ m.ctl = "ret"
                  /\ Update(m, POISON)
                  /\ last' = [ctl |-> "ret", at |-> m.x[LR],
                              from |-> <<Pending[Len(Pending)]>>,
                              calls |-> SubSeq(Pending, 1, Len(Pending) - 1)]
CALLH_from(S, run) == \E inst \in Of(S, "CALLH") : CallFrom(inst, op_callh(Here, inst), run)
EXH_from(S, run) == \E inst \in Of(S, "EXH") : CallFrom(inst, op_exh(Here, inst), run)
RET_to(S, run) == \E inst \in Of(S, "RET") : ReturnTo(inst, op_ret(Here, inst), run)
MOV_between(S, run) == \E inst \in Of(S, "MOV") : Between(inst, op_mov(Here, inst), run)
CMP_between(S, run) == \E inst \in Of(S, "CMP") : Between(inst, op_cmp(Here, inst), run)
CALLC_between(S, run) == \E inst \in Of(S, "CALLC") : Between(inst, op_callc(Here, inst), run)

PairInsts ==
    {Branch("CALLH", COND_ALWAYS, <<HandleP(0)>>, TRUE, TRUE),
     Branch("CALLH", "Z", <<HandleP(1)>>, TRUE, FALSE),
     Branch("EXH", COND_ALWAYS, <<HandleP(1), ImmP({1})>>, TRUE, TRUE),
     Branch("EXH", "NZ", <<HandleP(0), IRegP(0)>>, TRUE, FALSE),
     Inst("RET", 4, COND_ALWAYS, {}, <<>>),
     Inst("RET", 4, "Z", {}, <<>>),
     Inst("MOV", 8, COND_ALWAYS, {}, <<IRegP(0), ImmP({3})>>),
     Inst("CMP", 4, COND_ALWAYS, ArithFlags, <<IRegP(0), ImmP({})>>),
     Inst("CALLC", 4, COND_ALWAYS, {}, <<ImmP({}), M1>>)}
PairSteps == [at |-> 0 .. 5, keep |-> FALSE, hold |-> FALSE]
PairsStart ==
    /\ m_carry_state = POISON
    /\ gp = [n \in PersistentGp |-> IF n = FP THEN FrameBase ELSE {}]
    /\ vec = [n \in PersistentVec |-> {}]
    /\ nzcv \in {{}, {NZCV_Z}}
    /\ mem = [c \in Cells |-> AfterReset(c)]
    /\ stack = <<[fp |-> FrameBase, lr |-> HostReturn]>>
    /\ sp = SubBV(FrameBase, {4}, 64)
    /\ frame = [n \in SavedRegs |-> HostValue(n)]
    /\ m_cache = CacheAfterReset(256)
    /\ pc = "run"
    /\ last = NoCalls
    /\ steps = 0
NextPairs ==
    \/ CALLH_from(PairInsts, PairSteps)
    \/ EXH_from(PairInsts, PairSteps)
    \/ RET_to(PairInsts, PairSteps)
    \/ MOV_between(PairInsts, PairSteps)
    \/ CMP_between(PairInsts, PairSteps)
    \/ CALLC_between(PairInsts, PairSteps)
SpecPairs == PairsStart /\ [][NextPairs]_vars

SpBelow(v, n) == SubBV(v, FromNat(16 * n), 64)
\* C14: entering a handle by CALLH or EXH pushes exactly one 16-byte FP/LR
\* pair; the matching RET pops exactly that pair and resumes at the
\* instruction following the call; so after any sequence of matched calls and
\* returns SP is what it was before the first call.
MatchedPairs ==
    /\ last.ctl = "call" =>
         LET c == Pending[Len(Pending)]
         IN  /\ sp = SpBelow(c.sp, 1)
             /\ stack = Append(SubSeq(stack, 1, c.depth), [fp |-> c.fp, lr |-> c.site])
    /\ last.ctl = "ret" =>
         LET c == last.from[1]
         IN  /\ sp = c.sp
             /\ Len(stack) = c.depth
             /\ gp[FP] = c.fp
             /\ last.at = c.site
    /\ sp = SpBelow(FrameBase, 1 + Len(Pending))
    /\ Len(stack) = 1 + Len(Pending)
    /\ Pending = <<>> => sp = SpBelow(FrameBase, 1)
\* every call returned from, the last return being that of a CALLH
MatchedPairsWitness ==
    /\ last.ctl = "ret"
    /\ Pending = <<>>
    /\ last.from[1].op = "CALLH"
    /\ steps >= 4
    /\ sp = SpBelow(FrameBase, 1)

(***************************************************************************)
(* C15: the frame pointer between the entry point and the exit point       *)
(***************************************************************************)
FrameInsts ==
    {Branch("CALLH", COND_ALWAYS, <<HandleP(0)>>, TRUE, TRUE),
     Branch("CALLH", "Z", <<HandleP(1)>>, TRUE, FALSE),
     Branch("EXH", COND_ALWAYS, <<HandleP(1), ImmP({1})>>, TRUE, TRUE),
     Inst("RET", 4, COND_ALWAYS, {}, <<>>),
     Inst("RET", 4, "NZ", {}, <<>>),
     Inst("HASH", 4, COND_ALWAYS, {}, <<ImmP({}), ImmP({12})>>),
     HashJmp(ImmP({}), ImmP({12}), HandleP(1), TRUE, TRUE),
     HashJmp(ImmP({0}), IRegP(0), HandleP(0), TRUE, FALSE),
     Inst("MOV", 8, COND_ALWAYS, {}, <<IRegP(0), ImmP({12})>>),
     Inst("MOV", 8, COND_ALWAYS, {}, <<IRegP(7), ImmP(BV_ONES64)>>),
     Inst("CALLC", 4, COND_ALWAYS, {}, <<ImmP({}), M1>>),
     Hosted("RECOVER", <<IRegP(0), ImmP({0})>>, TRUE, FALSE),
     Inst("EXIT", 4, COND_ALWAYS, {}, <<ImmP({0})>>)}
FrameSteps == [at |-> 1 .. 4, keep |-> FALSE, hold |-> FALSE]
NextFrame ==
    \/ execute(HandleP(0), AtStep(0, FALSE))
    \/ CALLH(FrameInsts, FrameSteps)
    \/ EXH(FrameInsts, FrameSteps)
    \/ RET(FrameInsts, FrameSteps)
    \/ HASH(FrameInsts, FrameSteps)
    \/ HASHJMP(FrameInsts, FrameSteps)
    \/ MOV(FrameInsts, FrameSteps)
    \/ CALLC(FrameInsts, FrameSteps)
    \/ RECOVER(FrameInsts, FrameSteps)
    \/ EXIT_returning(FrameInsts, FrameSteps)
SpecFrame == InitHost /\ [][NextFrame]_vars

EntryFrame == SubBV(EntrySp, FrameSize, 64)
NestingDepth == ToNat(LsrBV(SubBV(gp[FP], sp, 64), 4))
\* C15: between the entry point and the exit point x29 never changes: it is
\* the frame pointer the entry point set, every frame pointer saved on the
\* stack of the generated code equals it, and the number of frames on that
\* stack is (FP - SP) / 16 at every point.
FramePointerFixed ==
    pc = "run" =>
        /\ gp[FP] = EntryFrame
        /\ \A k \in 1 .. Len(stack) : stack[k].fp = gp[FP]
        /\ SubBV(gp[FP], sp, 64) = FromNat(16 * Len(stack))
        /\ NestingDepth = Len(stack)
\* three frames deep
FramePointerFixedWitness ==
    /\ pc = "run"
    /\ Len(stack) = MaxStack
    /\ NestingDepth = MaxStack
    /\ gp[FP] = EntryFrame

(***************************************************************************)
(* C16: calls of a handle emitted before and after the handle is bound     *)
(***************************************************************************)
\* the handle a call goes to, and the cell holding its code pointer
HandleOf(inst) == IF inst.op = "HASHJMP" THEN inst.p[3] ELSE inst.p[1]
codeptr_addr(handp) == <<"codeptr", handp.id>>
GenerateCall(g, inst) ==
    CASE inst.op = "CALLH" -> op_callh(g, inst)
      [] inst.op = "EXH" -> op_exh(g, inst)
      [] inst.op = "HASHJMP" -> op_hashjmp(g, inst)
\* the call is generated: whether its handle's code pointer is null now
\* decides between the direct and the indirect call
EmitCall(S) ==
    /\ pc = "run"
    /\ steps = 0
    /\ \E inst \in S :
         /\ inst.bound = (mem[codeptr_addr(HandleOf(inst))] # {})
         /\ m_carry_state' = GenerateCall(Here, inst).carry
         /\ last' = [inst |-> inst, code |-> GenerateCall(Here, inst).code]
    /\ steps' = steps + 1
    /\ UNCHANGED <<gp, vec, nzcv, mem, stack, sp, frame, pc, m_cache>>
\* later the code generated for the call runs
ReachedFrom(e, m, cell) ==
    /\ last' = [inst |-> e.inst, ctl |-> m.ctl, tgt |-> m.tgt, cell |-> cell]
    /\ IF m.ctl = "call"
       THEN \E before \in carry_state :
              LET h == op_handle(At(before), [NoInst EXCEPT !.op = "HANDLE"])
              IN  Update([Run(h.code, FindLabel(h.code, "handle") + 1,
                              [m EXCEPT !.ctl = "next", !.x[LR] = SiteOf(POISON)])
                            EXCEPT !.ctl = "call"], h.carry)
       ELSE Update(m, POISON)
RunCall ==
    /\ pc = "run"
    /\ steps = 2
    /\ \E env \in HostEnvs :
         ReachedFrom(last.before, Run(last.before.code, 1, Boot(env.junk, env)),
                     mem[codeptr_addr(HandleOf(last.before.inst))])

BindConditions == {COND_ALWAYS, "Z", "NC"}
BindCalls ==
    {Branch("CALLH", cond, <<HandleP(id)>>, near, bound) :
        cond \in BindConditions, id \in Handles, near \in BOOLEAN, bound \in BOOLEAN}
    \cup {Branch("EXH", cond, <<HandleP(id), exp>>, near, bound) :
            cond \in BindConditions, id \in Handles, near \in BOOLEAN, bound \in BOOLEAN,
            exp \in {ImmP({0, 3}), IRegP(0)}}
    \cup {HashJmp(modep, pcp, HandleP(id), FALSE, bound) :
            modep \in {ImmP({0}), M1}, pcp \in {IRegP(0), M0},
            id \in Handles, bound \in BOOLEAN}
BindHandles == {[NoInst EXCEPT !.op = "HANDLE", !.p = <<HandleP(id)>>] : id \in Handles}
\* the handles are bound or not when generation starts
InitBind ==
    InitIn({{12}}, {{}, {NZCV_Z}}, {{}}, {{}}, {{}},
           {[c \in Cells |-> IF c[1] # "codeptr" THEN AfterReset(c)
                             ELSE IF c[2] \in done THEN HandleCode(c[2]) ELSE {}] :
              done \in SUBSET Handles})
NextBind ==
    \/ EmitCall(BindCalls)
    \/ HANDLE(BindHandles, Holding(1))
    \/ RunCall
SpecBind == InitBind /\ [][NextBind]_vars

CallTaken == steps = 3 /\ last.ctl # "next"
\* C16: a call of a handle by CALLH, EXH or a HASHJMP that found no code
\* reaches the code the handle's HANDLE bound, both when the call was
\* generated with the handle's code pointer already set (a direct call) and
\* when it was generated with the pointer null and the handle was bound before
\* the call ran (a call through the cell holding the pointer).
HandleReached ==
    CallTaken /\ (last.inst.bound \/ last.cell # {}) =>
        /\ last.ctl = "call"
        /\ last.tgt = HandleOf(last.inst).id
        /\ Len(stack) = IF last.inst.op = "HASHJMP" THEN 1 ELSE 2
\* a failed hash jump generated before its handle was bound
HandleReachedWitness ==
    /\ CallTaken
    /\ last.inst.op = "HASHJMP"
    /\ ~last.inst.bound
    /\ last.ctl = "call"
    /\ last.tgt = 1

(***************************************************************************)
(* The logical opcodes and the immediates the assembler accepts for them   *)
(***************************************************************************)
\* AND: src1 and src2 into dst, with Z and S if asked for
and_finish(g, inst, dst) ==
    IF inst.flags # {}
    THEN [mov_param_reg(g, inst.size, inst.p[1], dst) EXCEPT !.carry = POISON]
    ELSE mov_param_reg(g, inst.size, inst.p[1], dst)
and_same(g, inst, opcode, src1p, dst, src1) ==
    IF inst.p[1] = src1p /\ inst.flags = {}
       /\ (inst.size = 8 \/ (is_memory(inst.p[1]) /\ ~is_cold_register(inst.p[1])))
    THEN g
    ELSE and_finish(
             IF dst.n # src1.n
                \/ (inst.size = 4 /\ inst.p[1] = src1p /\ is_int_register(inst.p[1]))
             THEN Emit(mov_reg_param(g, inst.size, src1, src1p), Op3(opcode, dst, src1, src1))
             ELSE IF inst.flags # {}
             THEN Emit(mov_reg_param(g, inst.size, src1, src1p), Tst(dst))
             ELSE mov_reg_param(g, inst.size, src1, src1p),
             inst, dst)
and_swapped(g, inst, opcode, src1p, src2p, dst, src1) ==
    IF is_immediate_value(src1p, {}) \/ is_immediate_value(src2p, {})
    THEN and_finish(
             IF inst.flags # {}
             THEN Emit(g, Op3("ands", dst, select_register(XReg(zr), inst.size), Imm({0})))
             ELSE Emit(g, Mov(dst, Imm({}))),
             inst, dst)
    ELSE IF is_immediate(src1p) /\ is_immediate(src2p)
    THEN and_finish(
             IF inst.flags # {}
             THEN Emit(get_imm_relative(g, dst, AndBV(src1p.v, src2p.v)), Tst(dst))
             ELSE get_imm_relative(g, dst, AndBV(src1p.v, src2p.v)),
             inst, dst)
    ELSE IF is_immediate(src2p) /\ is_valid_immediate_mask(src2p.v, inst.size)
    THEN and_finish(Emit(mov_reg_param(g, inst.size, src1, src1p),
                         Op3(opcode, dst, src1, Imm(src2p.v))),
                    inst, dst)
    ELSE IF inst.size = 8 /\ is_immediate(src2p) /\ is_valid_immediate_mask(src2p.v, 4)
            /\ (inst.flags = {} \/ 31 \notin src2p.v)
    THEN and_finish(Emit(mov_reg_param(g, inst.size, src1, src1p),
                         Op3(opcode, select_register(dst, 4), select_register(src1, 4),
                             Imm(src2p.v))),
                    inst, dst)
    ELSE IF is_immediate_value(src2p, make_bitmask(inst.size * 8)) \/ src1p = src2p
    THEN and_same(g, inst, opcode, src1p, dst, src1)
    ELSE and_finish(
             Emit(mov_reg_param(mov_reg_param(g, inst.size, src1, src1p), inst.size,
                                param_select_register(src2p, XReg(TEMP_REG1), inst.size),
                                src2p),
                  Op3(opcode, dst, src1,
                      param_select_register(src2p, XReg(TEMP_REG1), inst.size))),
             inst, dst)
\* the sources change places if the first is an immediate or the second is
\* the destination register
logic_swap(inst) ==
    is_immediate(inst.p[2]) \/ (is_int_register(inst.p[1]) /\ inst.p[1] = inst.p[3])
op_and(g, inst) ==
    LET src1p == IF logic_swap(inst) THEN inst.p[3] ELSE inst.p[2]
        src2p == IF logic_swap(inst) THEN inst.p[2] ELSE inst.p[3]
        dst == param_select_register(inst.p[1], XReg(TEMP_REG3), inst.size)
    IN  and_swapped(g, inst, IF inst.flags # {} THEN "ands" ELSE "and", src1p, src2p,
                    dst, param_select_register(src1p, dst, inst.size))

\* TEST: the Z and S of src1 and src2
TstImm(r, v) == [op |-> "ands", d |-> select_register(XReg(zr), r.w), n |-> r, m |-> Imm(v)]
test_body(g, inst, src1p, src2p, src1, src2) ==
    IF is_immediate_value(src1p, {}) \/ is_immediate_value(src2p, {})
    THEN Emit(g, Tst(select_register(XReg(zr), inst.size)))
    ELSE IF is_immediate_value(src2p, make_bitmask(inst.size * 8))
    THEN Emit(mov_reg_param(g, inst.size, src1, src1p), Tst(src1))
    ELSE IF is_immediate_value(src1p, make_bitmask(inst.size * 8))
    THEN Emit(mov_reg_param(g, inst.size, src2, src2p), Tst(src2))
    ELSE IF is_immediate(src2p) /\ is_valid_immediate_mask(src2p.v, inst.size)
    THEN Emit(mov_reg_param(g, inst.size, src1, src1p), TstImm(src1, src2p.v))
    ELSE IF is_immediate(src1p) /\ is_valid_immediate_mask(src1p.v, inst.size)
    THEN Emit(mov_reg_param(g, inst.size, src2, src2p), TstImm(src2, src1p.v))
    ELSE Emit(mov_reg_param(mov_reg_param(g, inst.size, src1, src1p), inst.size, src2, src2p),
              [op |-> "ands", d |-> select_register(XReg(zr), inst.size),
               n |-> src1, m |-> src2])
op_test(g, inst) ==
    [test_body(g, inst, inst.p[1], inst.p[2],
               param_select_register(inst.p[1], XReg(TEMP_REG1), inst.size),
               param_select_register(inst.p[2], XReg(TEMP_REG2), inst.size))
     EXCEPT !.carry = POISON]

\* OR and XOR: the result into dst, then Z and S of dst if asked for
or_finish(g, inst, dst) ==
    IF inst.flags # {}
    THEN [Emit(mov_param_reg(g, inst.size, inst.p[1], dst), Tst(dst)) EXCEPT !.carry = POISON]
    ELSE mov_param_reg(g, inst.size, inst.p[1], dst)
or_same(g, inst, src1p, dst, src1) ==
    IF inst.p[1] = src1p /\ inst.flags = {}
       /\ (inst.size = 8 \/ (is_memory(inst.p[1]) /\ ~is_cold_register(inst.p[1])))
    THEN g
    ELSE or_finish(
             IF dst.n # src1.n
                \/ (inst.size = 4 /\ inst.p[1] = src1p /\ is_int_register(inst.p[1]))
             THEN Emit(mov_reg_param(g, inst.size, src1, src1p), Mov(dst, src1))
             ELSE mov_reg_param(g, inst.size, src1, src1p),
             inst, dst)
or_swapped(g, inst, src1p, src2p, dst, src1) ==
    IF is_immediate(src1p) /\ is_immediate(src2p)
    THEN or_finish(get_imm_relative(g, dst, OrBV(src1p.v, src2p.v)), inst, dst)
    ELSE IF is_immediate_value(src2p, make_bitmask(inst.size * 8))
    THEN or_finish(Emit(g, Mov(dst, Imm(src2p.v))), inst, dst)
    ELSE IF is_immediate_value(src2p, {}) \/ src1p = src2p
    THEN or_same(g, inst, src1p, dst, src1)
    ELSE IF is_immediate(src2p) /\ is_valid_immediate(src2p.v, 12)
    THEN or_finish(Emit(mov_reg_param(g, inst.size, src1, src1p),
                        Op3("orr", dst, src1, Imm(src2p.v))),
                   inst, dst)
    ELSE or_finish(
             Emit(mov_reg_param(mov_reg_param(g, inst.size, src1, src1p), inst.size,
                                param_select_register(src2p, XReg(TEMP_REG1), inst.size),
                                src2p),
                  Op3("orr", dst, src1,
                      param_select_register(src2p, XReg(TEMP_REG1), inst.size))),
             inst, dst)
op_or(g, inst) ==
    LET src1p == IF logic_swap(inst) THEN inst.p[3] ELSE inst.p[2]
        src2p == IF logic_swap(inst) THEN inst.p[2] ELSE inst.p[3]
        dst == param_select_register(inst.p[1], XReg(TEMP_REG3), inst.size)
    IN  or_swapped(g, inst, src1p, src2p, dst, param_select_register(src1p, dst, inst.size))
xor_swapped(g, inst, src1p, src2p, dst, src1) ==
    IF is_immediate(src1p) /\ is_immediate(src2p)
    THEN or_finish(get_imm_relative(g, dst, XorBV(src1p.v, src2p.v)), inst, dst)
    ELSE IF is_immediate_value(src2p, {})
    THEN or_same(g, inst, src1p, dst, src1)
    ELSE IF is_immediate_value(src2p, make_bitmask(inst.size * 8))
    THEN or_finish(Emit(mov_reg_param(g, inst.size, src1, src1p),
                        Op3("orn", dst, select_register(XReg(zr), inst.size), src1)),
                   inst, dst)
    ELSE IF is_immediate(src2p) /\ is_valid_immediate_mask(src2p.v, inst.size)
    THEN or_finish(Emit(mov_reg_param(g, inst.size, src1, src1p),
                        Op3("eor", dst, src1, Imm(src2p.v))),
                   inst, dst)
    ELSE IF src1p = src2p
    THEN or_finish(Emit(g, Mov(dst, select_register(XReg(zr), inst.size))), inst, dst)
    ELSE or_finish(
             Emit(mov_reg_param(mov_reg_param(g, inst.size, src1, src1p), inst.size,
                                param_select_register(src2p, XReg(TEMP_REG1), inst.size),
                                src2p),
                  Op3("eor", dst, src1,
                      param_select_register(src2p, XReg(TEMP_REG1), inst.size))),
             inst, dst)
op_xor(g, inst) ==
    LET src1p == IF logic_swap(inst) THEN inst.p[3] ELSE inst.p[2]
        src2p == IF logic_swap(inst) THEN inst.p[2] ELSE inst.p[3]
        dst == param_select_register(inst.p[1], XReg(TEMP_REG3), inst.size)
    IN  xor_swapped(g, inst, src1p, src2p, dst, param_select_register(src1p, dst, inst.size))

\* The assembler encodes the immediate of a logical instruction as a bitmask
\* immediate: an element of 2, 4, 8, 16, 32 or 64 bits, repeated over the
\* operand, that is a rotation of a run of ones neither empty nor full.
ElementSizes == {2, 4, 8, 16, 32, 64}
RotatedRun(e, rot, len) == {(rot + k) % e : k \in 0 .. (len - 1)}
EncodableBitmask(val, bits) ==
    \E e \in {s \in ElementSizes : s <= bits} :
      /\ \A b \in 0 .. (bits - 1) : b \in val <=> (b % e) \in val
      /\ \E rot \in 0 .. (e - 1), len \in 1 .. (e - 1) :
           val \cap (0 .. (e - 1)) = RotatedRun(e, rot, len)
LogicalImmediate(i) == i.op \in {"and", "ands", "orr", "eor"} /\ i.m.k = "i"
\* the instructions of the code the assembler reports an error for
InvalidImmediate(code) ==
    {k \in DOMAIN code :
       /\ LogicalImmediate(code[k])
       /\ ~EncodableBitmask(Trunc(code[k].m.v, Bits(code[k].n)), Bits(code[k].n))}

(***************************************************************************)
(* C17: generating a block into a cache with no room                       *)
(***************************************************************************)
s_opcode_table(g, inst) ==
    CASE inst.op = "HANDLE" -> op_handle(g, inst)
      [] inst.op = "HASH" -> op_hash(g, inst)
      [] inst.op = "LABEL" -> op_label(g, inst)
      [] inst.op = "NOP" -> op_nop(g, inst)
      [] inst.op = "MOV" -> op_mov(g, inst)
      [] inst.op \in {"ADD", "ADDC"} -> op_add(g, inst)
      [] inst.op \in {"SUB", "SUBB"} -> op_sub(g, inst)
      [] inst.op = "CMP" -> op_cmp(g, inst)
      [] inst.op = "SET" -> op_set(g, inst)
      [] inst.op = "OR" -> op_or(g, inst)
      [] inst.op = "EXIT" -> op_exit(g, inst)
\* what generating an instruction registers: the code of a handle, the code
\* for a mode and pc; the code is the place the assembler has come to, the
\* handle's behind the branch over its prologue
Registered(memory, inst, address) ==
    CASE inst.op = "HANDLE" ->
           [memory EXCEPT ![codeptr_addr(inst.p[1])] = FromNat(address + CacheGeometry.insn)]
      [] inst.op = "HASH" ->
           set_codeptr(memory, ToNat(inst.p[1].v), inst.p[2].v, FromNat(address))
      [] OTHER -> memory
\* the instructions are generated in turn, until the assembler reports an
\* error and the error handler throws
RECURSIVE GenerateList(_, _, _, _)
GenerateList(instlist, g, memory, baseAddress) ==
    IF instlist = <<>> THEN [g |-> g, mem |-> memory, err |-> FALSE]
    ELSE IF InvalidImmediate(s_opcode_table(g, Head(instlist)).code) # {}
    THEN [g |-> g, mem |-> memory, err |-> TRUE]
    ELSE GenerateList(Tail(instlist), s_opcode_table(g, Head(instlist)),
                      Registered(memory, Head(instlist), baseAddress + code_size(g.code)),
                      baseAddress)
AlignedTop(cache) ==
    ((cache.top + CacheGeometry.linemask) \div (CacheGeometry.linemask + 1))
        * (CacheGeometry.linemask + 1)
\* generate: the code of the block, the branch to the end-of-block point, and
\* the copy into the cache; the block is aborted if emit returns 0.  An error
\* thrown by the assembler leaves generate before the copy.
CodePointers == {c \in Cells : c[1] \in {"codeptr", "hash.l2"}}
Generated(out, dst) ==
    LET code == Append(out.g.code, [op |-> "b", t |-> Far("endofblock", 0)])
        emitted == IF out.err THEN [ret |-> 0, cache |-> m_cache]
                   ELSE emit(m_cache, dst, code)
    IN  /\ m_cache' = emitted.cache
        /\ m_carry_state' = out.g.carry
        /\ mem' = out.mem
        /\ last' = [op |-> "generate", aborted |-> (~out.err /\ emitted.ret = 0),
                    thrown |-> out.err, from |-> m_cache,
                    reserve |-> IF out.err THEN 0 ELSE (dst - m_cache.top) + code_size(code),
                    block |-> dst .. (dst + code_size(code) - 1),
                    set |-> {c \in CodePointers : out.mem[c] # mem[c]}]
generate(blocks, run) ==
    /\ steps \in run.at
    /\ \E instlist \in blocks :
         Generated(GenerateList(instlist, At(POISON), mem, AlignedTop(m_cache)),
                   AlignedTop(m_cache))
    /\ steps' = steps + 1
    /\ UNCHANGED <<gp, vec, nzcv, stack, sp, frame, pc>>

BlockInsts ==
    {[NoInst EXCEPT !.op = "HANDLE", !.p = <<HandleP(1)>>],
     Inst("HASH", 4, COND_ALWAYS, {}, <<ImmP({}), ImmP({12})>>),
     [NoInst EXCEPT !.op = "NOP"],
     Inst("MOV", 8, COND_ALWAYS, {}, <<IRegP(0), ImmP(QuotedValue)>>),
     Inst("MOV", 4, COND_ALWAYS, {}, <<IRegP(0), IRegP(1)>>),
     Inst("ADD", 4, COND_ALWAYS, FLAG_C, <<IRegP(0), IRegP(0), IRegP(1)>>),
     Inst("OR", 4, COND_ALWAYS, {}, <<IRegP(0), IRegP(1), ImmP({0, 2})>>),
     Inst("EXIT", 4, "Z", {}, <<ImmP({0})>>)}
Blocks == {<<a>> : a \in BlockInsts} \cup {<<a, b>> : a \in BlockInsts, b \in BlockInsts}
CacheLimits == {72, 128, 192}
InitCache ==
    /\ m_carry_state = POISON
    /\ gp = [n \in PersistentGp |-> IF n = FP THEN FrameBase ELSE {}]
    /\ vec = [n \in PersistentVec |-> {}]
    /\ nzcv = {}
    /\ mem = [c \in Cells |-> IF c[1] = "codeptr" /\ c[2] = 1 THEN {} ELSE AfterReset(c)]
    /\ stack = <<[fp |-> FrameBase, lr |-> HostReturn]>>
    /\ sp = SubBV(FrameBase, {4}, 64)
    /\ frame = [n \in SavedRegs |-> HostValue(n)]
    /\ \E limit \in CacheLimits : m_cache = CacheAfterReset(limit)
    /\ pc = "run"
    /\ last = [op |-> "reset", aborted |-> FALSE, thrown |-> FALSE, from |-> m_cache,
               reserve |-> 0, block |-> {}, set |-> {}]
    /\ steps = 0
NextCache == generate(Blocks, During(2, FALSE))
SpecCache == InitCache /\ [][NextCache]_vars

NoRoom == last.op = "generate" /\ ~begin_codegen(last.from, last.reserve).ok
\* C17: if the cache has no room for the alignment padding and the code
\* (begin_codegen returns null), generate copies no bytes into the cache,
\* signals the block to abort, and leaves the top of the cache where it was.
NoRoomAborts ==
    NoRoom =>
        /\ last.aborted
        /\ m_cache.bytes = last.from.bytes
        /\ m_cache.top = last.from.top
\* a block that does not fit after blocks that did
NoRoomAbortsWitness ==
    /\ NoRoom
    /\ last.aborted
    /\ m_cache.bytes # CacheAfterReset(m_cache.limit).bytes

(***************************************************************************)
(* C18: reloading the native carry                                         *)
(***************************************************************************)
\* the reloads of the native carry in a piece of code: only load_carry writes
\* NZCV from SCRATCH_REG1 in the code of these instructions
Reloads(code) ==
    Cardinality({j \in 1 .. Len(code) :
                   code[j].op = "msr" /\ code[j].n = XReg(SCRATCH_REG1)})
\* an instruction runs; last notes the state the generator was in before it,
\* the reloads in its code and the instruction before it
Consumed(inst, gen, m) ==
    /\ m.ctl = "next"
    /\ Update(m, gen.carry)
    /\ last' = [inst |-> inst, carry |-> m_carry_state,
                reloads |-> Reloads(gen.code), prev |-> last.inst]
Consuming(inst, run) ==
    /\ pc = "run"
    /\ steps \in run.at
    /\ \E junk \in ScratchVals :
         Consumed(inst, s_opcode_table(Here, inst),
                  Ran(s_opcode_table(Here, inst), junk, NoEnv))

CarryConsumers == {"ADDC", "SUBB"}
ReloadInsts ==
    {Inst(op, size, COND_ALWAYS, fl, <<IRegP(0), IRegP(0), src>>) :
        op \in {"ADD", "ADDC", "SUB", "SUBB"}, size \in {4},
        fl \in {{}, FLAG_C}, src \in {IRegP(1), M0}}
    \cup {Inst("CMP", 4, COND_ALWAYS, ArithFlags, <<IRegP(0), IRegP(1)>>),
          Inst("MOV", 4, COND_ALWAYS, {}, <<IRegP(1), IRegP(0)>>),
          Inst("SET", 4, "A", {}, <<IRegP(1)>>),
          Inst("SET", 4, "BE", {}, <<M0>>),
          [NoInst EXCEPT !.op = "LABEL"]}
InitReload == InitWith({BV_ONES64}, {{}, {NZCV_C}}, {{}, FLAG_C}, {{}}, {{}}, {{0}})
NextReload ==
    \/ \E inst \in Of(ReloadInsts, "ADD") : Consuming(inst, During(3, FALSE))
    \/ \E inst \in Of(ReloadInsts, "ADDC") : Consuming(inst, During(3, FALSE))
    \/ \E inst \in Of(ReloadInsts, "SUB") : Consuming(inst, During(3, FALSE))
    \/ \E inst \in Of(ReloadInsts, "SUBB") : Consuming(inst, During(3, FALSE))
    \/ \E inst \in Of(ReloadInsts, "CMP") : Consuming(inst, During(3, FALSE))
    \/ \E inst \in Of(ReloadInsts, "MOV") : Consuming(inst, During(3, FALSE))
    \/ \E inst \in Of(ReloadInsts, "SET") : Consuming(inst, During(3, FALSE))
    \/ \E inst \in Of(ReloadInsts, "LABEL") : Consuming(inst, During(3, FALSE))
SpecReload == InitReload /\ [][NextReload]_vars

\* the polarity of the native carry an instruction consumes
Needed(inst) ==
    CASE inst.op = "ADDC" -> CANONICAL
      [] inst.op = "SUBB" -> LOGICAL
      [] inst.op = "SET" /\ inst.cond \in {"A", "BE"} -> LOGICAL
      [] OTHER -> POISON
Consumes(inst) == Needed(inst) # POISON
\* C18: a reload of the native carry is emitted only when the tracked state
\* differs from the polarity the consumer needs, and after it the tracked
\* state is that polarity; so the second of two consecutive identical ADDC or
\* SUBB with flags requested emits no reload.
ReloadWhenNeeded ==
    Consumes(last.inst) =>
        /\ last.reloads = IF last.carry # Needed(last.inst) THEN 1 ELSE 0
        /\ m_carry_state = Needed(last.inst)
        /\ (/\ last.inst.op \in CarryConsumers
            /\ last.prev = last.inst
            /\ last.inst.flags # {}) => last.reloads = 0
\* the second of two identical SUBB with flags requested
ReloadWhenNeededWitness ==
    /\ last.inst.op = "SUBB"
    /\ last.prev = last.inst
    /\ last.inst.flags = FLAG_C
    /\ last.reloads = 0
    /\ steps = 2

(***************************************************************************)
(* C19: a destination register that is also the shift count or the mask    *)
(***************************************************************************)
AliasOps == {"ROLAND", "ROLINS"} \cup ShiftOps
AliasSources == {IRegP(1), ImmP(FromNat(305419896))}
AliasMasks == {ImmP(FromNat(255)), ImmP(FromNat(4080)), IRegP(1)}
AliasInsts ==
    {Inst(op, size, COND_ALWAYS, fl, <<IRegP(0), srcp, IRegP(0), maskp>>) :
        op \in {"ROLAND", "ROLINS"}, size \in {4, 8}, fl \in {{}, FLAG_Z},
        srcp \in AliasSources, maskp \in AliasMasks \cup {IRegP(0)}}
    \cup {Inst(op, size, COND_ALWAYS, fl, <<IRegP(0), srcp, shiftp, IRegP(0)>>) :
            op \in {"ROLAND", "ROLINS"}, size \in {4, 8}, fl \in {{}, FLAG_Z},
            srcp \in AliasSources, shiftp \in {ImmP({2}), IRegP(1)}}
    \cup {Inst(op, size, COND_ALWAYS, fl, <<IRegP(0), srcp, IRegP(0)>>) :
            op \in ShiftOps, size \in {4, 8}, fl \in {{}, FLAG_Z},
            srcp \in AliasSources \cup {IRegP(0)}}
InitAlias ==
    InitWith({FromNat(4), FromNat(255), FromNat(36) \cup {40}}, {{}}, {{}},
             {{}}, {{}}, {{}})
NextAlias ==
    \/ ROLAND(AliasInsts, AtStep(0, TRUE))
    \/ ROLINS(AliasInsts, AtStep(0, TRUE))
    \/ SHL(AliasInsts, AtStep(0, TRUE))
    \/ SHR(AliasInsts, AtStep(0, TRUE))
    \/ SAR(AliasInsts, AtStep(0, TRUE))
    \/ ROR(AliasInsts, AtStep(0, TRUE))
    \/ ROL(AliasInsts, AtStep(0, TRUE))
SpecAlias == InitAlias /\ [][NextAlias]_vars

\* what UML defines the instruction to leave in its destination, from the
\* values its operands held before it
ShiftCount(rec) == ToNat(Trunc(rec.val[3], 6)) % (rec.inst.size * 8)
Rotated(rec) == RolBV(rec.val[2], ShiftCount(rec), rec.inst.size * 8)
UmlShifted(rec, n) ==
    CASE rec.inst.op = "ROLAND" -> AndBV(Rotated(rec), Trunc(rec.val[4], n))
      [] rec.inst.op = "ROLINS" ->
           (Trunc(rec.val[1], n) \ rec.val[4]) \cup AndBV(Rotated(rec), Trunc(rec.val[4], n))
      [] rec.inst.op = "SHL" -> ShlBV(Trunc(rec.val[2], n), ShiftCount(rec), n)
      [] rec.inst.op = "SHR" -> LsrBV(Trunc(rec.val[2], n), ShiftCount(rec))
      [] rec.inst.op = "SAR" -> AsrBV(Trunc(rec.val[2], n), ShiftCount(rec), n)
      [] rec.inst.op = "ROR" -> RorBV(rec.val[2], ShiftCount(rec), n)
      [] rec.inst.op = "ROL" -> Rotated(rec)
\* C19: a generator writes the destination's own host register before all
\* sources are read only when that register is not also a source: for ROLAND,
\* ROLINS, the shifts and the rotates, with the destination the same UML
\* register as the shift count or the mask, the result is still computed from
\* the values those operands held before the instruction.
AliasedOperandsRead ==
    last.inst.op \in AliasOps =>
        Trunc(gp[int_register_map(0)], last.inst.size * 8)
            = UmlShifted(last, last.inst.size * 8)

(***************************************************************************)
(* C20: integer instructions leave their source registers alone            *)
(***************************************************************************)
\* what I0 and I1 hold before the instruction: a count above the operand
\* size, and a bit above the low 32
SourceStart == FromNat(36) \cup {40}
SourceParams == {IRegP(0), IRegP(1), ImmP(FromNat(305419896)), M0}
CountParams == {IRegP(1), ImmP({2}), M0}
SourceInsts ==
    {Inst("CARRY", size, COND_ALWAYS, FLAG_C, <<srcp, bitp>>) :
        size \in {4, 8}, srcp \in SourceParams, bitp \in CountParams}
    \cup {Inst(op, size, COND_ALWAYS, fl, <<dstp, srcp, shiftp, maskp>>) :
            op \in {"ROLAND", "ROLINS"}, size \in {4, 8}, fl \in {{}, FLAG_Z},
            dstp \in {IRegP(0), M0}, srcp \in {IRegP(0), ImmP(FromNat(305419896))},
            shiftp \in CountParams, maskp \in {ImmP(FromNat(4080)), IRegP(1)}}
    \cup {Inst(op, size, COND_ALWAYS, fl, <<dstp, srcp, shiftp>>) :
            op \in ShiftOps, size \in {4, 8}, fl \in {{}, FLAG_Z},
            dstp \in {IRegP(0), M0}, srcp \in {IRegP(0), IRegP(1)},
            shiftp \in CountParams}
    \cup {Inst(op, size, COND_ALWAYS, fl, <<dstp, IRegP(1), srcp>>) :
            op \in {"ADD", "SUB"}, size \in {4, 8}, fl \in {{}, FLAG_C},
            dstp \in {IRegP(0), M0}, srcp \in SourceParams}
    \cup {Inst("CMP", size, COND_ALWAYS, ArithFlags, <<IRegP(0), srcp>>) :
            size \in {4, 8}, srcp \in SourceParams}
    \cup {Inst("MOV", size, COND_ALWAYS, {}, <<dstp, IRegP(1)>>) :
            size \in {4, 8}, dstp \in {IRegP(0), M0}}
InitSources ==
    InitWith({SourceStart}, {{}, {NZCV_C}}, {{}, FLAG_C}, {{}}, {{}}, {{}, {2, 33}})
NextSources ==
    \/ CARRY(SourceInsts, AtStep(0, TRUE))
    \/ ROLAND(SourceInsts, AtStep(0, TRUE))
    \/ ROLINS(SourceInsts, AtStep(0, TRUE))
    \/ SHL(SourceInsts, AtStep(0, TRUE))
    \/ SHR(SourceInsts, AtStep(0, TRUE))
    \/ SAR(SourceInsts, AtStep(0, TRUE))
    \/ ROR(SourceInsts, AtStep(0, TRUE))
    \/ ROL(SourceInsts, AtStep(0, TRUE))
    \/ ADD(SourceInsts, AtStep(0, TRUE))
    \/ SUB(SourceInsts, AtStep(0, TRUE))
    \/ CMP(SourceInsts, AtStep(0, TRUE))
    \/ MOV(SourceInsts, AtStep(0, TRUE))
SpecSources == InitSources /\ [][NextSources]_vars

\* the registers an instruction may write: those of its destination operands
Destinations(inst) ==
    IF inst.op \in {"CARRY", "CMP"} \/ ~is_int_register(inst.p[1]) THEN {}
    ELSE {inst.p[1].n}
UmlRegisters == {int_register_map(i) : i \in 0 .. (REG_I_COUNT - 1)}
HeldBefore(n) ==
    IF n \in {int_register_map(0), int_register_map(1)} THEN SourceStart ELSE FromNat(n)
\* C20: the code of an integer instruction changes no UML integer register
\* other than its destination: every source register, the register shift
\* count of ROLAND and ROLINS and the register bit number of CARRY among them,
\* holds the same 64-bit value after the instruction as before.
SourcesPreserved ==
    steps = 1 =>
        \A n \in UmlRegisters \ Destinations(last.inst) : gp[n] = HeldBefore(n)

(***************************************************************************)
(* C21: ROLINS over every kind of operand and every path of its generator  *)
(***************************************************************************)
\* masks: none, all ones at either size, right-aligned, contiguous, and two
\* that are neither, the second one with an encodable complement
InsertMasks ==
    {ImmP({}), ImmP(ONES32), ImmP(BV_ONES64), ImmP(FromNat(255)), ImmP(FromNat(4080)),
     ImmP({0, 9}), ImmP(FromNat(61695))}
InsertInsts ==
    {Inst("ROLINS", size, COND_ALWAYS, fl, <<dstp, srcp, shiftp, maskp>>) :
        size \in {4, 8}, fl \in {{}, FLAG_Z \cup FLAG_S}, dstp \in {IRegP(0), M0},
        srcp \in {ImmP(FromNat(170)), IRegP(1), M1},
        shiftp \in {ImmP({}), ImmP(FromNat(4)), IRegP(2), M1},
        maskp \in InsertMasks \cup {IRegP(3), M1}}
\* I0 and I1 hold 0x12345678 or that under a set top bit, the cells 0x12345678
\* and 0x0FF0
InitInsert ==
    InitIn({FromNat(305419896), FromNat(305419896) \cup {63}}, {{}}, {{}, FLAG_C},
           {{}}, {{}},
           {[c \in Cells |-> IF c = <<"m", 0>> THEN FromNat(305419896)
                             ELSE IF c = <<"m", 1>> THEN FromNat(4080)
                             ELSE AfterReset(c)]})
NextInsert == ROLINS(InsertInsts, AtStep(0, TRUE))
SpecInsert == InitInsert /\ [][NextInsert]_vars

\* C21: for every combination of operand kinds and on every peephole path,
\* ROLINS leaves the destination equal to (old destination AND NOT mask) OR
\* (rol(source, shift) AND mask) at the instruction width.
RolinsAsReference ==
    last.inst.op = "ROLINS" =>
        Trunc(ParamValue(last.inst.p[1]), last.inst.size * 8)
            = UmlShifted(last, last.inst.size * 8)

(***************************************************************************)
(* C22: ROLC and RORC with the count as a constant and in a register       *)
(***************************************************************************)
ROLC_beside(S, run) ==
    \E inst \in Of(S, "ROLC") :
        Compared(inst, op_rolc(Here, inst), op_rolc(Here, InRegisters(inst)), run)
RORC_beside(S, run) ==
    \E inst \in Of(S, "RORC") :
        Compared(inst, op_rorc(Here, inst), op_rorc(Here, InRegisters(inst)), run)

\* counts below, at and above either width
CarryCounts == {FromNat(n) : n \in {0, 1, 2, 31, 32, 33, 63, 65}}
CarrySources == {IRegP(0), ImmP(FromNat(305419896) \cup {31, 63}), ImmP({0})}
CarryRotateInsts ==
    {Inst(op, size, COND_ALWAYS, fl, <<dstp, srcp, countp>>) :
        op \in {"ROLC", "RORC"}, size \in {4, 8}, fl \in {{}, FLAG_C \cup FLAG_Z \cup FLAG_S},
        dstp \in {IRegP(2), M0}, srcp \in CarrySources,
        countp \in {ImmP(c) : c \in CarryCounts} \cup {IRegP(1), M1}}
\* I0 and I1 hold a count or a value with both ends set; the cell of the
\* count holds 34
InitCarryRotate ==
    InitIn({{}, {0}, {0, 5}, {0, 31, 63}}, {{}}, {{}, FLAG_C \cup FLAG_U},
           {{}}, {{}},
           {[c \in Cells |-> IF c = <<"m", 1>> THEN {1, 5} ELSE AfterReset(c)]})
NextCarryRotate ==
    \/ ROLC_beside(CarryRotateInsts, AtStep(0, TRUE))
    \/ RORC_beside(CarryRotateInsts, AtStep(0, TRUE))
SpecCarryRotate == InitCarryRotate /\ [][NextCarryRotate]_vars

\* the source and the carry as one quantity of bits + 1 bits, the carry on
\* top, rotated left by n
CarryCount(inst) == ToNat(Trunc(ParamValue(inst.p[3]), 6)) % (inst.size * 8)
WithCarry(inst, c) ==
    Trunc(ParamValue(inst.p[2]), inst.size * 8) \cup (IF c THEN {inst.size * 8} ELSE {})
RotatedWithCarry(inst, c) ==
    IF inst.op = "ROLC"
    THEN RolBV(WithCarry(inst, c), CarryCount(inst), inst.size * 8 + 1)
    ELSE RorBV(WithCarry(inst, c), CarryCount(inst), inst.size * 8 + 1)
CarryRotated == last.inst.op \in {"ROLC", "RORC"}
RotatedIn == RotatedWithCarry(last.inst, FLAG_BIT_C \in last.flags)

\* C22: ROLC and RORC rotate the (width+1)-bit quantity formed by the source
\* and the incoming C.  For every source, incoming C and count modulo the
\* width, the form with the count as a constant and the form with the count
\* in a register leave the same destination and the same C: the destination
\* is the low part of the rotated quantity, and C is its top bit for a count
\* of one or more, written as zero by both forms for a count of zero.
CarryRotateFormsAgree ==
    CarryRotated =>
        /\ Trunc(ParamValue(last.inst.p[1]), last.inst.size * 8)
             = Trunc(last.other.dst, last.inst.size * 8)
        /\ flags \cap FLAG_C = last.other.flags \cap FLAG_C
        /\ Trunc(ParamValue(last.inst.p[1]), last.inst.size * 8)
             = Trunc(RotatedIn, last.inst.size * 8)
        /\ (FLAG_BIT_C \in flags)
             = (CarryCount(last.inst) # 0 /\ (last.inst.size * 8) \in RotatedIn)
\* ROLC by the constant one at size 4 of a source with its top bit set, the
\* carry set: the carry comes in at the bottom and the top bit goes out
CarryRotateFormsAgreeWitness ==
    /\ last.inst.op = "ROLC" /\ last.inst.size = 4
    /\ last.inst.p[2] = IRegP(0) /\ last.inst.p[3] = ImmP({0}) /\ last.inst.p[1] = M0
    /\ FLAG_BIT_C \in last.flags
    /\ gp[int_register_map(0)] = {0, 31, 63}
    /\ Trunc(mem[<<"m", 0>>], 32) = {0, 1}
    /\ FLAG_BIT_C \in flags

(***************************************************************************)
(* C23: the carry of the shifts and rotates, with the count as a constant  *)
(* and in a register                                                       *)
(***************************************************************************)
SHIFT_beside(S, run) ==
    \E inst \in S :
        /\ inst.op \in {"SHL", "SHR", "SAR", "ROR"}
        /\ Compared(inst, op_shift(Here, inst), op_shift(Here, InRegisters(inst)), run)
ROL_beside(S, run) ==
    \E inst \in Of(S, "ROL") :
        Compared(inst, op_rol(Here, inst), op_rol(Here, InRegisters(inst)), run)

\* counts on either side of what the constant form of op_shift accepts, and
\* below, at and above either width
ShiftCounts == {FromNat(n) : n \in {0, 1, 2, 15, 16, 31, 32, 33, 63, 64}}
ShiftCarryInsts ==
    {Inst(op, size, COND_ALWAYS, fl, <<dstp, srcp, countp>>) :
        op \in ShiftOps, size \in {4, 8}, fl \in {{}, FLAG_C \cup FLAG_Z \cup FLAG_S},
        dstp \in {IRegP(2), M0}, srcp \in {IRegP(0), ImmP(FromNat(305419896) \cup {31, 63})},
        countp \in {ImmP(c) : c \in ShiftCounts} \cup {IRegP(1), M1}}
InitShiftCarry ==
    InitIn({{}, {0}, {0, 5}, {0, 31, 63}}, {{}}, {{}, FLAG_C \cup FLAG_U},
           {{}}, {{}},
           {[c \in Cells |-> IF c = <<"m", 1>> THEN {1, 5} ELSE AfterReset(c)]})
NextShiftCarry ==
    \/ SHIFT_beside(ShiftCarryInsts, AtStep(0, TRUE))
    \/ ROL_beside(ShiftCarryInsts, AtStep(0, TRUE))
SpecShiftCarry == InitShiftCarry /\ [][NextShiftCarry]_vars

\* the operands as the instruction found them: neither the source nor the
\* count is its destination
ShiftOperands ==
    [inst |-> last.inst, val |-> [k \in DOMAIN last.inst.p |-> ParamValue(last.inst.p[k])]]
ShiftCarry(rec, n) ==
    IF ShiftCount(rec) = 0 THEN FALSE
    ELSE IF rec.inst.op \in {"SHL", "ROL"} THEN (n - ShiftCount(rec)) \in rec.val[2]
    ELSE (ShiftCount(rec) - 1) \in rec.val[2]

\* C23: for SHL, SHR, SAR, ROR and ROL with the count n taken modulo the
\* width W, the C written is bit (W - n) of the source for the left shift and
\* the left rotate, bit (n - 1) of the source for the right shifts and the
\* right rotate, and 0 when n = 0; the path for a constant count and the path
\* for a variable count give the same destination and the same C.
ShiftCarryOut ==
    last.inst.op \in ShiftOps =>
        /\ Trunc(ParamValue(last.inst.p[1]), last.inst.size * 8)
             = Trunc(last.other.dst, last.inst.size * 8)
        /\ flags \cap FLAG_C = last.other.flags \cap FLAG_C
        /\ Trunc(ParamValue(last.inst.p[1]), last.inst.size * 8)
             = UmlShifted(ShiftOperands, last.inst.size * 8)
        /\ (FLAG_BIT_C \in flags) = ShiftCarry(ShiftOperands, last.inst.size * 8)
\* SHR by the constant 33 at size 4 of a source with bit 0 set: the count is
\* one, and the bit shifted out is written over a C that was clear
ShiftCarryOutWitness ==
    /\ last.inst.op = "SHR" /\ last.inst.size = 4
    /\ last.inst.p[2] = IRegP(0) /\ last.inst.p[3] = ImmP({0, 5})
    /\ last.inst.p[1] = IRegP(2)
    /\ gp[int_register_map(0)] = {0, 31, 63}
    /\ gp[int_register_map(2)] = {30}
    /\ FLAG_BIT_C \notin last.flags
    /\ FLAG_BIT_C \in flags

(***************************************************************************)
(* C24: the flags of MULU and MULS                                         *)
(***************************************************************************)
MulFlagSet == FLAG_V \cup FLAG_Z \cup FLAG_S
MulSources ==
    {<<IRegP(0), IRegP(1)>>, <<IRegP(0), ImmP({})>>, <<ImmP({0, 1}), IRegP(1)>>,
     <<M0, IRegP(1)>>, <<IRegP(0), ImmP(ONES32)>>}
MulInsts ==
    {Inst(op, size, COND_ALWAYS, MulFlagSet, <<d[1], d[2], src[1], src[2]>>) :
        op \in {"MULU", "MULS"}, size \in {4, 8},
        d \in {<<IRegP(2), IRegP(3)>>, <<M1, IRegP(0)>>, <<IRegP(2), IRegP(2)>>},
        src \in MulSources}
\* I0 and I1 hold nothing, one, the largest and the smallest signed values of
\* either size, or all ones; the cell holds 0x10000
InitMul ==
    InitWith({{}, {0}, MAX32, MIN32, MIN64, BV_ONES64},
             {{}, {NZCV_N, NZCV_Z, NZCV_C, NZCV_V}}, {{}, FLAG_C \cup FLAG_U},
             {{}}, {{}}, {{16}})
NextMul ==
    \/ MULU(MulInsts, AtStep(0, TRUE))
    \/ MULS(MulInsts, AtStep(0, TRUE))
SpecMul == InitMul /\ [][NextMul]_vars

\* the product of the sources at twice the width of the instruction
MulProduct(rec, n) ==
    IF rec.inst.op = "MULU"
    THEN IF n = 32 THEN MulBV(Trunc(rec.val[3], 32), Trunc(rec.val[4], 32), 64)
         ELSE MulWide(rec.val[3], rec.val[4])
    ELSE IF n = 32
    THEN MulBV(SignExtend(rec.val[3], 32, 64), SignExtend(rec.val[4], 32, 64), 64)
    ELSE MulWideSigned(rec.val[3], rec.val[4])
MulOverflows(rec, n, product) ==
    IF rec.inst.op = "MULU" THEN LsrBV(product, n) # {}
    ELSE product # SignExtend(product, n, 2 * n)
MulFlagsOf(rec, n, product) ==
    (IF MulOverflows(rec, n, product) THEN FLAG_V ELSE {})
    \cup (IF product = {} THEN FLAG_Z ELSE {})
    \cup (IF (2 * n - 1) \in product THEN FLAG_S ELSE {})
Multiplied == last.inst.op \in {"MULU", "MULS"} /\ last.inst.flags # {}

\* C24: for MULU and MULS with flags requested at sizes 4 and 8, V is set iff
\* the high half of the product is non-zero (unsigned) or is not the sign
\* extension of the low half (signed), Z iff both halves are zero, S is the
\* top bit of the high half, and C is left as it was before the multiply.
MultiplyFlags ==
    Multiplied =>
        /\ flags \cap MulFlagSet
             = MulFlagsOf(last, last.inst.size * 8,
                          MulProduct(last, last.inst.size * 8))
        /\ flags \cap FLAG_C = last.flags \cap FLAG_C
\* MULS at size 4 of 0x80000000 by itself: the product 2^62 has an empty low
\* half under a high half that is not its sign extension; C was set and stays
MultiplyFlagsWitness ==
    /\ last.inst.op = "MULS" /\ last.inst.size = 4
    /\ last.inst.p[3] = IRegP(0) /\ last.inst.p[4] = IRegP(1)
    /\ last.val[3] = MIN32 /\ last.val[4] = MIN32
    /\ last.inst.p[1] = IRegP(2) /\ last.inst.p[2] = IRegP(3)
    /\ gp[int_register_map(2)] = {} /\ gp[int_register_map(3)] = {30}
    /\ FLAG_BIT_C \in last.flags
    /\ flags = FLAG_V \cup FLAG_C \cup FLAG_U

(***************************************************************************)
(* C25: the fast memory-access path                                        *)
(***************************************************************************)
count_leading_zeros_32(v) ==
    IF Trunc(v, 32) = {} THEN 32
    ELSE 31 - (CHOOSE i \in Trunc(v, 32) : \A j \in Trunc(v, 32) : j <= i)

\* what the constructor derives from the address mask of a space and the
\* geometry of its specific accessors
memory_accessors(addrmask, specific) ==
    LET address_mask == AndBV(AndBV(Trunc(addrmask, 32), make_bitmask(specific.address_width)),
                              NotBV(make_bitmask(specific.native_mask_bits), 32))
        shiftedmask == LsrBV(address_mask, specific.low_bits)
        nomask == NotBV({}, 32)
        no_mask == nomask = address_mask
    IN  [ResolvedOnly EXCEPT
           !.have_specific = TRUE,
           !.native_bytes = specific.native_bytes,
           !.is_virtual = specific.is_virtual,
           !.low_bits = specific.low_bits,
           !.displacement = specific.displacement,
           !.address_mask = address_mask,
           !.high_bits = 32 - count_leading_zeros_32(shiftedmask),
           !.no_mask = no_mask,
           !.mask_simple = ~no_mask /\ is_valid_immediate_mask(address_mask, 4),
           !.mask_high_bits = AndBV(shiftedmask, AddBV(shiftedmask, {0}, 32)) # {}]

Specific(address_width, native_mask_bits, low_bits, native_bytes, is_virtual, displacement) ==
    [address_width |-> address_width, native_mask_bits |-> native_mask_bits,
     low_bits |-> low_bits, native_bytes |-> native_bytes, is_virtual |-> is_virtual,
     displacement |-> displacement]

\* address spaces of every shape of mask: none; a contiguous one, with a
\* dispatch table of sixteen entries or of one; a contiguous one over the
\* table's index with a hole below it; one with a hole in the table's index,
\* contiguous or not elsewhere; a repeating group; one with holes and a table
\* of one entry
DispatchedSpaces ==
    {memory_accessors(BV_ONES64, Specific(32, 0, 28, 4, FALSE, {})),
     memory_accessors(BV_ONES64, Specific(32, 0, 0, 4, FALSE, {})),
     memory_accessors(BV_ONES64, Specific(24, 2, 20, 4, TRUE, {3})),
     memory_accessors(BV_ONES64, Specific(16, 0, 16, 4, FALSE, {})),
     memory_accessors(make_bitmask(24) \ {7}, Specific(32, 0, 20, 4, FALSE, {})),
     memory_accessors(make_bitmask(24) \ {21}, Specific(32, 0, 20, 4, FALSE, {4})),
     memory_accessors(make_bitmask(24) \ {7, 21}, Specific(32, 1, 20, 4, TRUE, {})),
     memory_accessors({0, 1, 2, 3, 8, 9, 10, 11, 16, 17, 18, 19, 24, 25, 26, 27},
                      Specific(32, 0, 20, 4, FALSE, {})),
     memory_accessors(make_bitmask(16) \ {7}, Specific(32, 0, 16, 4, FALSE, {})),
     memory_accessors(make_bitmask(28), Specific(32, 3, 24, 8, FALSE, {})),
     memory_accessors(make_bitmask(28) \ {5, 26}, Specific(32, 3, 24, 8, TRUE, {3}))}

DispatchedAddresses == {IRegP(0), ImmP({2, 7, 20, 21, 23, 26, 28, 31, 33}), M0}
DispatchedInsts ==
    {Access("READ", size, <<IRegP(1), addrp, SpaceP(acc.native_bytes)>>, acc, near) :
        size \in {4, 8}, addrp \in DispatchedAddresses, acc \in DispatchedSpaces,
        near \in BOOLEAN}
    \cup {Access("WRITE", 8, <<addrp, IRegP(1), SpaceP(bytes)>>, acc, near) :
            addrp \in DispatchedAddresses, acc \in DispatchedSpaces, bytes \in {4, 8},
            near \in BOOLEAN}

\* what the accessor was called with is remembered beside the address the
\* instruction named
Accessed(inst, gen, run) ==
    /\ pc = "run"
    /\ steps \in run.at
    /\ \E env \in HostEnvs :
         LET m == Ran(gen, env.junk, env)
         IN  /\ m.ctl = "next"
             /\ Update(m, gen.carry)
             /\ last' = [inst |-> inst, carry |-> m_carry_state, flags |-> flags,
                         address |-> ParamValue(inst.p[IF inst.op = "READ" THEN 2 ELSE 1]),
                         called |-> m.called]
READ_dispatched(S, run) ==
    \E inst \in Of(S, "READ") : Accessed(inst, op_read(Here, inst), run)
WRITE_dispatched(S, run) ==
    \E inst \in Of(S, "WRITE") : Accessed(inst, op_write(Here, inst), run)

\* I0 and the cell hold addresses with bits in and out of every mask, and
\* above bit 31
InitDispatched ==
    InitIn({{}, BV_ONES64, {0, 5, 7, 16, 21, 24, 27, 31}, {1, 2, 20, 22, 25, 26, 40}},
           {{}}, {{}, FLAG_C}, {{}}, {{}},
           {[c \in Cells |-> IF c = <<"m", 0>> THEN v ELSE AfterReset(c)] :
              v \in {{3, 7, 21, 23, 24, 30, 35}, ONES32}})
NextDispatched ==
    \/ READ_dispatched(DispatchedInsts, AtStep(0, TRUE))
    \/ WRITE_dispatched(DispatchedInsts, AtStep(0, TRUE))
SpecDispatched == InitDispatched /\ [][NextDispatched]_vars

Dispatched ==
    /\ last.inst.op \in {"READ", "WRITE"}
    /\ last.inst.p[3].bytes <= last.inst.acc.native_bytes
MaskedAddress(rec) == AndBV(Trunc(rec.address, 32), rec.inst.acc.address_mask)

\* C25: on the fast path of READ and WRITE, whatever the address and the
\* shape of the space's address mask, the accessor is called with the address
\* ANDed with address_mask, on the object that the dispatch table holds at
\* entry (address AND address_mask) >> low_bits, adjusted by the displacement.
FastPathDispatch ==
    Dispatched =>
        /\ last.called.address = MaskedAddress(last)
        /\ last.called.obj
             = AddBV(DispatchEntry(LsrBV(MaskedAddress(last), last.inst.acc.low_bits)),
                     last.inst.acc.displacement, 64)
\* a write through a mask with a hole in the table's index: the address has
\* the bit of the hole set, the entry is chosen without it
FastPathDispatchWitness ==
    /\ Dispatched /\ last.inst.op = "WRITE"
    /\ last.inst.acc.mask_high_bits /\ ~last.inst.acc.mask_simple
    /\ last.inst.acc.low_bits = 20 /\ last.inst.acc.displacement = {4}
    /\ last.inst.p[1] = M0 /\ last.address = {3, 7, 21, 23, 24, 30, 35}
    /\ last.called.address = {3, 7, 23}
    /\ last.called.obj = AddBV(DispatchEntry({3}), {4}, 64)

(***************************************************************************)
(* C26: the emulated-flags register between UML instructions               *)
(***************************************************************************)
StrayFlags == {0, 1, 2, 3, 4, 5, 6, 7, 9, 31, 33}
FlagMasks == {{}, FLAG_C, FLAG_U, FLAG_C \cup FLAG_U, FLAG_V \cup FLAG_Z, AllFlags}
FlagsRegInsts ==
    {Inst("SETFLGS", 4, COND_ALWAYS, {}, <<p>>) :
        p \in {ImmP(StrayFlags), ImmP({}), IRegP(0), M0}}
    \cup {Inst(op, 4, COND_ALWAYS, {}, <<StateBlock>>) : op \in {"SAVE", "RESTORE"}}
    \cup {Inst("GETFLGS", 4, COND_ALWAYS, {}, <<dstp, ImmP(mask)>>) :
            dstp \in {IRegP(1), M1}, mask \in FlagMasks}
    \cup {Inst("CALLC", 4, cond, {}, <<ImmP({}), M1>>) : cond \in {COND_ALWAYS, "C", "NU"}}
    \cup {Inst(op, 4, COND_ALWAYS, FLAG_C \cup FLAG_Z, <<IRegP(2), IRegP(0), count>>) :
            op \in {"ROLC", "RORC", "SHL", "SHR", "ROR", "ROL"},
            count \in {ImmP({}), ImmP({0}), ImmP({0, 2}), IRegP(0)}}
    \cup {Inst(op, 8, COND_ALWAYS, ArithFlags, <<IRegP(2), IRegP(0), IRegP(0)>>) :
            op \in {"ADD", "ADDC", "SUB", "SUBB"}}
    \cup {Inst("CARRY", 4, COND_ALWAYS, {}, <<IRegP(0), bit>>) :
            bit \in {ImmP({0, 2}), IRegP(3)}}
    \cup {Inst("FCMP", 8, COND_ALWAYS, FloatFlags, <<FRegP(0), src>>) :
            src \in {FRegP(0), FRegP(1)}}
    \cup {Inst("MULU", 4, COND_ALWAYS, MulFlagSet, <<IRegP(2), IRegP(3), IRegP(0), IRegP(0)>>)}
    \cup {Branch("CALLH", COND_ALWAYS, <<HandleP(1)>>, TRUE, TRUE)}

FlagsRegOps(S, run) ==
    \/ SETFLGS(S, run) \/ SAVE(S, run) \/ RESTORE(S, run) \/ GETFLGS(S, run)
    \/ CALLC(S, run) \/ ROLC(S, run) \/ RORC(S, run)
    \/ SHL(S, run) \/ SHR(S, run) \/ ROR(S, run) \/ ROL(S, run)
    \/ ADD(S, run) \/ ADDC(S, run) \/ SUB(S, run) \/ SUBB(S, run)
    \/ CARRY(S, run) \/ FCMP(S, run) \/ MULU(S, run) \/ CALLH(S, run)

\* before execute is called: m_near.emulated_flags holds what the
\* constructor or the last CALLC stored there; the flags byte of the state
\* block and the cell have every bit set, the host's registers hold its own
\* values
InitFlagsReg ==
    /\ m_carry_state = POISON
    /\ gp = [n \in PersistentGp |-> HostValue(n)]
    /\ vec = [n \in PersistentVec |->
                IF n = float_register_map(0) THEN FP64_ONE
                ELSE IF n = float_register_map(1) THEN FP64_NAN ELSE HostValue(n + 32)]
    /\ nzcv \in {{}, {NZCV_N, NZCV_Z, NZCV_C, NZCV_V}}
    /\ \E fl \in EmulatedFlagVals, st \in {{}, make_bitmask(8)} :
         mem = [c \in Cells |->
                  CASE c = <<"m_near.emulated_flags", 0>> -> fl
                    [] c = <<"state.flags", 0>> -> st
                    [] c = <<"m", 0>> -> BV_ONES64
                    [] OTHER -> AfterReset(c)]
    /\ stack = <<>>
    /\ sp = EntrySp
    /\ frame = [n \in SavedRegs |-> {}]
    /\ m_cache = CacheAfterReset(256)
    /\ pc = "host"
    /\ last = NoLast
    /\ steps = 0
NextFlagsReg ==
    \/ execute(HandleP(0), AtStep(0, FALSE))
    \/ FlagsRegOps(FlagsRegInsts, [at |-> {1, 2}, keep |-> TRUE, hold |-> FALSE])
SpecFlagsReg == InitFlagsReg /\ [][NextFlagsReg]_vars

\* C26: wherever generated code stands between two UML instructions (after
\* entry, after SETFLGS, RESTORE, CALLC, ROLC, RORC, the shifts and every
\* other opcode), the emulated-flags register has no bit set but bit 0 (C)
\* and bit 4 (U); the flags byte SAVE has written and the value GETFLGS has
\* produced have no bit set outside the five flags, respectively the mask.
FlagsRegClean ==
    pc = "run" =>
        /\ gp[FLAGS_REG] \subseteq FLAG_C \cup FLAG_U
        /\ last.inst.op = "SAVE" => Trunc(mem[<<"state.flags", 0>>], 8) \subseteq AllFlags
        /\ last.inst.op = "GETFLGS" =>
             Trunc(ParamValue(last.inst.p[1]), 32) \subseteq last.inst.p[2].v
\* SETFLGS of a word with every bit set from memory, then SAVE: the register
\* holds C and U, the byte saved the five flags
FlagsRegCleanWitness ==
    /\ pc = "run" /\ steps = 3
    /\ last.inst.op = "SAVE"
    /\ gp[FLAGS_REG] = FLAG_C \cup FLAG_U
    /\ mem[<<"state.flags", 0>>] = AllFlags

(***************************************************************************)
(* C27: STORE with each form of index and each kind of source              *)
(***************************************************************************)
\* an index that does not fit the direct-address form once scaled by eight
LargeIndex == {12}
StoreSource == {0, 5, 31, 32, 40, 63}
StoreShapes ==
    {<<8, 3, 3>>, <<8, 3, 0>>, <<8, 2, 2>>, <<4, 2, 2>>, <<4, 2, 3>>, <<4, 1, 1>>,
     <<4, 0, 0>>, <<4, 0, 2>>}
StoreInsts ==
    {Inst("STORE", shape[1], COND_ALWAYS, {},
          <<M0, indp, srcp, SizeScaleP(shape[2], shape[3])>>) :
        shape \in StoreShapes,
        indp \in {ImmP({}), ImmP({0}), ImmP(LargeIndex), IRegP(1), M1},
        srcp \in {IRegP(0), ImmP(StoreSource), ImmP({3}), M1}}

\* I0 holds a source with bits in both halves, I1 an index of zero or one;
\* the second quadword of the array holds an index of one or the source
InitStore ==
    InitIn({StoreSource, {}, {0}}, {{}}, {{}, FLAG_C}, {{}}, {{}},
           {[c \in Cells |-> IF c = <<"m", 0>> THEN BV_ONES64
                             ELSE IF c = <<"m", 1>> THEN v ELSE AfterReset(c)] :
              v \in {{0}, StoreSource}})
NextStore == STORE(StoreInsts, AtStep(0, TRUE))
SpecStore == InitStore /\ [][NextStore]_vars

\* what a STORE is to do: the low bytes of the source, as many as the size
\* of the store, written at the base plus the scaled index
StoreReference(rec) ==
    ArrayWrite([mem |-> rec.before, touched |-> NoAccess],
               AddBV(param_memory(rec.inst.p[1]),
                     ShlBV(Trunc(rec.val[2], 32), rec.inst.p[4].scale, 64), 64),
               2 ^ rec.inst.p[4].size, rec.val[3])
Stored == last.inst.op = "STORE" /\ Trunc(last.val[2], 32) = last.val[2]

\* C27: a STORE writes the same bytes whether its index is an immediate that
\* fits the direct-address form, a larger immediate, a register or a memory
\* parameter: the low bytes of the source at the base plus the scaled index,
\* all eight of them for an 8-byte store, whether the source is a register,
\* a memory parameter or an immediate.
StoreWritesSource ==
    Stored =>
        /\ last.touched = StoreReference(last).touched
        /\ mem = StoreReference(last).mem

(***************************************************************************)
(* C28: FLOAD and FSTORE with each kind of index                           *)
(***************************************************************************)
FloatIndexes == {ImmP({}), ImmP({0}), IRegP(1), M1}
FloatAccessInsts ==
    {Inst("FLOAD", size, COND_ALWAYS, {}, <<dstp, M0, indp>>) :
        size \in {4, 8}, dstp \in {FRegP(0), FRegP(2)}, indp \in FloatIndexes}
    \cup {Inst("FSTORE", size, COND_ALWAYS, {}, <<M0, indp, srcp>>) :
            size \in {4, 8}, srcp \in {FRegP(0), FRegP(1)}, indp \in FloatIndexes}

\* I1 and the second quadword of the array hold an index of zero or one
InitFloatAccess ==
    InitIn({{}, {0}}, {{}}, {{}, FLAG_C}, {FP64_ONE, StoreSource}, {FP64_NAN},
           {[c \in Cells |-> IF c = <<"m", 0>> THEN BV_ONES64
                             ELSE IF c = <<"m", 1>> THEN v ELSE AfterReset(c)] :
              v \in {{}, {0}}})
NextFloatAccess ==
    \/ FLOAD(FloatAccessInsts, AtStep(0, TRUE))
    \/ FSTORE(FloatAccessInsts, AtStep(0, TRUE))
SpecFloatAccess == InitFloatAccess /\ [][NextFloatAccess]_vars

FloatIndex(rec) == rec.val[IF rec.inst.op = "FLOAD" THEN 3 ELSE 2]
FloatBase(rec) == rec.inst.p[IF rec.inst.op = "FLOAD" THEN 2 ELSE 1]
FloatAccessed == last.inst.op \in {"FLOAD", "FSTORE"}

\* C28: FLOAD and FSTORE reach into memory at the base plus the index times
\* the size of the instruction, whether the index is an immediate, a register
\* or a memory parameter.
FloatAccessAtIndex ==
    FloatAccessed =>
        last.touched.at
          = AddBV(param_memory(FloatBase(last)),
                  MulBV(Trunc(FloatIndex(last), 32), FromNat(last.inst.size), 64), 64)

(***************************************************************************)
(* C29: the immediates of the logical instructions                         *)
(***************************************************************************)
\* ThrowableErrorHandler::handleError: the error leaves generation as a
\* fatal error; nothing of the instruction is executed
handleError(inst, gen) ==
    /\ pc' = "fatal"
    /\ last' = [inst |-> inst, err |-> gen.code[CHOOSE k \in InvalidImmediate(gen.code) :
                                           \A j \in InvalidImmediate(gen.code) : k <= j]]
    /\ steps' = steps + 1
    /\ UNCHANGED <<m_carry_state, gp, vec, nzcv, mem, stack, sp, frame, m_cache>>
Assembled(inst, gen, run) ==
    /\ pc = "run"
    /\ steps \in run.at
    /\ IF InvalidImmediate(gen.code) # {} THEN handleError(inst, gen)
       ELSE \E junk \in ScratchVals : Continue(inst, gen, Ran(gen, junk, NoEnv), run)

AND(S, run) == \E inst \in Of(S, "AND") : Assembled(inst, op_and(Here, inst), run)
TEST(S, run) == \E inst \in Of(S, "TEST") : Assembled(inst, op_test(Here, inst), run)
OR(S, run) == \E inst \in Of(S, "OR") : Assembled(inst, op_or(Here, inst), run)
XOR(S, run) == \E inst \in Of(S, "XOR") : Assembled(inst, op_xor(Here, inst), run)
ROLAND_assembled(S, run) ==
    \E inst \in Of(S, "ROLAND") : Assembled(inst, op_roland(Here, inst), run)
ROLINS_assembled(S, run) ==
    \E inst \in Of(S, "ROLINS") : Assembled(inst, op_rolins(Here, inst), run)

\* constant operands: nothing, one bit, runs of ones at the bottom, in the
\* middle and at the top, bits apart, and everything
LogicConstants ==
    {{}, {0}, {0, 2}, {0, 9}, 0 .. 7, 4 .. 11, {31}, 28 .. 35, {4, 40},
     make_bitmask(32), BV_ONES64}
LogicFlagSets == {{}, FLAG_Z \cup FLAG_S}
LogicInsts ==
    {Inst(op, size, COND_ALWAYS, fl, <<dst, src, ImmP(IF size = 4 THEN Trunc(k, 32) ELSE k)>>) :
       op \in {"AND", "OR", "XOR"}, size \in {4, 8}, fl \in LogicFlagSets,
       dst \in {IRegP(0), M0}, src \in {IRegP(0), IRegP(1)}, k \in LogicConstants}
    \cup {Inst("TEST", size, COND_ALWAYS, FLAG_Z \cup FLAG_S,
               <<src, ImmP(IF size = 4 THEN Trunc(k, 32) ELSE k)>>) :
            size \in {4, 8}, src \in {IRegP(1), M0}, k \in LogicConstants}
    \cup {Inst(op, size, COND_ALWAYS, fl,
               <<IRegP(0), src, ImmP(shift), ImmP(IF size = 4 THEN Trunc(k, 32) ELSE k)>>) :
            op \in {"ROLAND", "ROLINS"}, size \in {4, 8}, fl \in LogicFlagSets,
            src \in {IRegP(1), ImmP(0 .. 5)}, shift \in {{}, {2}}, k \in LogicConstants}
LogicValues == {{0, 2, 9}, {3, 31, 33, 63}}
InitLogic == InitWith(LogicValues, {{}}, {{}}, {{}}, {{}}, LogicValues)
NextLogic ==
    \/ AND(LogicInsts, AtStep(0, TRUE))
    \/ TEST(LogicInsts, AtStep(0, TRUE))
    \/ OR(LogicInsts, AtStep(0, TRUE))
    \/ XOR(LogicInsts, AtStep(0, TRUE))
    \/ ROLAND_assembled(LogicInsts, AtStep(0, TRUE))
    \/ ROLINS_assembled(LogicInsts, AtStep(0, TRUE))
SpecLogic == InitLogic /\ [][NextLogic]_vars

\* C29: every immediate-form logical instruction the generator emits for
\* AND, TEST, OR, XOR, ROLAND and ROLINS has an immediate that is encodable
\* as a bitmask immediate at the operand width, so generating them with a
\* constant operand never raises an assembler error.
LogicalImmediatesEncodable == pc # "fatal"


(***************************************************************************)
(* C30: the code pointers a failed generate leaves behind                  *)
(***************************************************************************)
\* a generate that failed: emit found no room and the block was aborted, or
\* the assembler's error was thrown; the block's bytes were not committed
Failed == last.op = "generate" /\ (last.aborted \/ last.thrown)
\* C30: after a generate that fails (the cache rejects the emission or the
\* assembler raises an error) no handle code pointer and no hash-table entry
\* set while generating the block refers to an address in the discarded,
\* never-committed block.
NoPointerIntoDiscardedBlock ==
    Failed => \A c \in last.set : ToNat(mem[c]) \notin last.block
====
